---- MODULE Spec2Model ----
(***************************************************************************)
(* grok-spicy: the generate-verify-correct loops (character sheet,         *)
(* keyframe, scene video), the moderation-retry wrapper they share, and    *)
(* the thread-safe EventBus.                                               *)
(*                                                                         *)
(* Scores and thresholds are percentages (0.80 is 80).  A URL or a path is *)
(* a sequence of string tokens; the empty string "" is the empty sequence. *)
(***************************************************************************)
EXTENDS Integers, Sequences, FiniteSets, TLC

\* ------------------------------------------------------------------ bounds
MaxRetries == 1
MaxRewords == 2
MaxQueues == 2
MaxEvents == 2
MaxChars == 2
MaxScenes == 2
MaxStreamEvents == 2
MaxUpserts == 3

\* ------------------------------------------------- constants of client.py
CONSISTENCY_THRESHOLD == 80
EXTENDED_RETRY_THRESHOLD == 50
MAX_CHAR_ATTEMPTS == 3
MAX_KEYFRAME_ITERS == 3
MAX_VIDEO_CORRECTIONS == 2
MAX_REWORD_ATTEMPTS == 2
MODERATED_URL_SENTINEL == "moderated_content"

\* ------------------------------------------------------------ value sets
\* overall_score values the verifier may return (ConsistencyScore, ge=0 le=1)
Scores == {0, 30, 40, 50, 60, 70, 72, 85, 90}
\* consistency_threshold values (PipelineConfig, 0.0 .. 1.0)
Thresholds == {0, CONSISTENCY_THRESHOLD}
\* Scene.duration_seconds values (ge=3, le=15): one per tier and the edge
Durations == {3, 8, 9, 15}
\* texts the rewording model may return
Reworded == {<<"reworded_a">>, <<"reworded_b">>}
EmptyStr == <<>>

VARIABLES
    task, cfg, scene, pc, ret,
    m_pc, m_prompt, m_result, m_rw, m_max, m_ret, gen_log, reword_log,
    n_gen, n_dl, attempt, iteration, corrections, best, score, fix_text,
    sample_kw, current_url, video_path, verified, ext_regens,
    subscribers, lock, queues, consumed, next_q, pub_pc, pub_event, pub_it,
    pub_count, pub_delivered, pub_seen, published, last_op, raised,
    p_pc, p_in, run_id, futures, join_i, characters, keyframes, prev_url,
    script, videos, state, state_file, notified, p_exc, p_out, runs, bus_log,
    sse_pc, sse_run, sse_q, sse_event, sse_out,
    character_assets, keyframe_assets, video_assets, db_ops,
    plan_pc, plan_in, plan, run_cfg, chars_generated, video_prompts, video_tiers,
    dl_pc, dl_url, dl_path, dl_attempt, dl_resp, dl_last_exc, dl_requests,
    dl_slept, dl_ret, dl_exc,
    flow_retries,
    hand_pc, hand_casts, char_map, keyframe_calls, hand_keyframes, hand_prev_url,
    video_calls

modVars == <<m_pc, m_prompt, m_result, m_rw, m_max, m_ret, gen_log, reword_log, n_gen>>
loopVars == <<n_dl, attempt, iteration, corrections, best, score, fix_text,
              sample_kw, current_url, video_path, verified, ext_regens>>
taskVars == <<task, cfg, scene, pc, ret>>
busVars == <<subscribers, lock, queues, consumed, next_q, pub_pc, pub_event, pub_it,
             pub_count, pub_delivered, pub_seen, published, last_op, raised>>
pipeVars == <<p_pc, p_in, run_id, futures, join_i, characters, keyframes, prev_url,
              script, videos, state, state_file, notified, p_exc, p_out, runs, bus_log>>
sseVars == <<sse_pc, sse_run, sse_q, sse_event, sse_out>>
dbVars == <<character_assets, keyframe_assets, video_assets, db_ops>>
planVars == <<plan_pc, plan_in, plan, run_cfg, chars_generated, video_prompts, video_tiers>>
dlVars == <<dl_pc, dl_url, dl_path, dl_attempt, dl_resp, dl_last_exc, dl_requests,
            dl_slept, dl_ret, dl_exc>>
flowVars == <<flow_retries>>
handVars == <<hand_pc, hand_casts, char_map, keyframe_calls, hand_keyframes,
              hand_prev_url, video_calls>>
extVars == <<pipeVars, sseVars, dbVars, planVars, dlVars, flowVars, handVars>>
vars == <<taskVars, modVars, loopVars, busVars, extVars>>

\* ------------------------------------------------------------- helpers
Max(a, b) == IF a >= b THEN a ELSE b

RECURSIVE MaxScore(_)
\* the largest score of a sequence of verified attempts, 0 when it is empty
MaxScore(log) ==
    IF log = <<>> THEN 0
    ELSE Max(log[Len(log)].score, MaxScore(SubSeq(log, 1, Len(log) - 1)))

\* ----------------------------------------------------- PipelineConfig
\* max_retries = 0 stands for None (the field is validated >= 1 when set)
max_char_attempts(c) ==
    IF c.max_retries # 0 THEN c.max_retries ELSE MAX_CHAR_ATTEMPTS

max_keyframe_iters(c) ==
    IF c.max_retries # 0 THEN c.max_retries ELSE MAX_KEYFRAME_ITERS

max_video_corrections(c) ==
    IF c.max_retries # 0 THEN c.max_retries ELSE MAX_VIDEO_CORRECTIONS

Configs ==
    [max_retries : 0 .. MaxRetries, consistency_threshold : Thresholds,
     dry_run : BOOLEAN, max_rewords : 0 .. MaxRewords]

\* ======================================================================
\* client.py: moderation helpers
\* ======================================================================
\* MODERATED_URL_SENTINEL in url
is_moderated(url) ==
    \E i \in 1 .. Len(url) : url[i] = MODERATED_URL_SENTINEL

\* the URLs generate_fn may return for the n-th generation call
GeneratedUrls(n) ==
    {<<"https", "cdn", ToString(n)>>, <<"https", MODERATED_URL_SENTINEL, ToString(n)>>}

NoRet == [result |-> EmptyStr, final_prompt |-> EmptyStr, still_moderated |-> FALSE]

\* the caller's side of generate_with_moderation_retry(generate_fn, prompt, ...)
ModCall(prompt, max_rewords) ==
    /\ m_pc = "idle"
    /\ m_pc' = "start"
    /\ m_prompt' = prompt
    /\ m_max' = max_rewords
    /\ m_rw' = 0
    /\ m_result' = EmptyStr
    /\ m_ret' = NoRet
    /\ gen_log' = <<>>
    /\ reword_log' = <<>>
    /\ UNCHANGED n_gen

\* the caller takes the returned tuple; the frame of the call is gone
ModTake ==
    /\ m_pc = "ret"
    /\ m_pc' = "idle"
    /\ m_prompt' = EmptyStr
    /\ m_result' = EmptyStr
    /\ m_rw' = 0
    /\ m_max' = 0
    /\ m_ret' = NoRet
    /\ gen_log' = <<>>
    /\ reword_log' = <<>>
    /\ UNCHANGED n_gen

\* line 173: result = generate_fn(prompt=prompt, **generate_kw)
ModGenerateFirst ==
    /\ m_pc = "start"
    /\ \E u \in GeneratedUrls(n_gen + 1) :
          /\ m_result' = u
          /\ gen_log' = Append(gen_log, [prompt |-> m_prompt, url |-> u])
    /\ n_gen' = n_gen + 1
    /\ m_pc' = "loop"
    /\ UNCHANGED <<m_prompt, m_rw, m_max, m_ret, reword_log>>
    /\ UNCHANGED <<taskVars, loopVars, busVars, extVars>>

\* lines 174-176: inside the loop, a result that is not blocked is returned
ModReturnClean ==
    /\ m_pc = "loop"
    /\ m_rw < m_max
    /\ ~is_moderated(m_result)
    /\ m_ret' = [result |-> m_result, final_prompt |-> m_prompt, still_moderated |-> FALSE]
    /\ m_pc' = "ret"
    /\ UNCHANGED <<m_prompt, m_result, m_rw, m_max, gen_log, reword_log, n_gen>>
    /\ UNCHANGED <<taskVars, loopVars, busVars, extVars>>

\* variant of the rewording: the reworded text is not assigned to prompt
ModRewordKeepsPrompt ==
    /\ m_pc = "loop"
    /\ m_rw < m_max
    /\ is_moderated(m_result)
    /\ \E p \in Reworded :
          reword_log' = Append(reword_log, [blocked |-> m_prompt, reworded |-> p])
    /\ m_pc' = "reworded"
    /\ UNCHANGED <<m_prompt, m_result, m_rw, m_max, m_ret, gen_log, n_gen>>
    /\ UNCHANGED <<taskVars, loopVars, busVars, extVars>>

\* lines 177-178: prompt = reword_prompt(prompt)
ModReword ==
    /\ m_pc = "loop"
    /\ m_rw < m_max
    /\ is_moderated(m_result)
    /\ \E p \in Reworded :
          /\ m_prompt' = p
          /\ reword_log' = Append(reword_log, [blocked |-> m_prompt, reworded |-> p])
    /\ m_pc' = "reworded"
    /\ UNCHANGED <<m_result, m_rw, m_max, m_ret, gen_log, n_gen>>
    /\ UNCHANGED <<taskVars, loopVars, busVars, extVars>>

\* line 179: result = generate_fn(prompt=prompt, **generate_kw); next _rw
ModRegenerate ==
    /\ m_pc = "reworded"
    /\ \E u \in GeneratedUrls(n_gen + 1) :
          /\ m_result' = u
          /\ gen_log' = Append(gen_log, [prompt |-> m_prompt, url |-> u])
    /\ n_gen' = n_gen + 1
    /\ m_rw' = m_rw + 1
    /\ m_pc' = "loop"
    /\ UNCHANGED <<m_prompt, m_max, m_ret, reword_log>>
    /\ UNCHANGED <<taskVars, loopVars, busVars, extVars>>

\* variant of the final return: the last result is not examined
ModReturnFinalUnchecked ==
    /\ m_pc = "loop"
    /\ ~(m_rw < m_max)
    /\ m_ret' = [result |-> m_result, final_prompt |-> m_prompt,
                 still_moderated |-> FALSE]
    /\ m_pc' = "ret"
    /\ UNCHANGED <<m_prompt, m_result, m_rw, m_max, gen_log, reword_log, n_gen>>
    /\ UNCHANGED <<taskVars, loopVars, busVars, extVars>>

\* lines 180-181: the range is exhausted
ModReturnFinal ==
    /\ m_pc = "loop"
    /\ ~(m_rw < m_max)
    /\ m_ret' = [result |-> m_result, final_prompt |-> m_prompt,
                 still_moderated |-> is_moderated(m_result)]
    /\ m_pc' = "ret"
    /\ UNCHANGED <<m_prompt, m_result, m_rw, m_max, gen_log, reword_log, n_gen>>
    /\ UNCHANGED <<taskVars, loopVars, busVars, extVars>>

ModStep ==
    \/ ModGenerateFirst
    \/ ModReturnClean
    \/ ModReword
    \/ ModRegenerate
    \/ ModReturnFinal

\* a direct call generate_with_moderation_retry(generate_fn, prompt, max_rewords=n)
ModTaskCall ==
    /\ task = "mod"
    /\ pc = "begin"
    /\ ModCall(<<"original">>, cfg.max_rewords)
    /\ pc' = "wait"
    /\ UNCHANGED <<task, cfg, scene, ret>>
    /\ UNCHANGED <<loopVars, busVars, extVars>>

ModTaskDone ==
    /\ task = "mod"
    /\ pc = "wait"
    /\ m_pc = "ret"
    /\ ret' = m_ret
    /\ pc' = "done"
    /\ UNCHANGED <<task, cfg, scene>>
    /\ UNCHANGED <<modVars, loopVars, busVars, extVars>>

\* ======================================================================
\* the loops' shared pieces
\* ======================================================================
\* variant of the initial best: a placeholder artifact instead of none
PlaceholderBest == [score |-> 0, url |-> <<"placeholder">>, path |-> <<"placeholder">>]

\* best: dict = {"score": 0.0, "url": "", "path": ""}
ZeroBest == [score |-> 0, url |-> EmptyStr, path |-> EmptyStr]
\* "score: ConsistencyScore | None = None"
NoScore ==
    [is_none |-> TRUE, overall_score |-> 0, subject |-> EmptyStr,
     issues |-> EmptyStr, fix_prompt |-> EmptyStr]
NoKw == [mode |-> "none", image_url |-> EmptyStr]

\* chat.parse(ConsistencyScore) about the artifact at url: any overall_score,
\* the issues found on that artifact, and a fix instruction or None ("")
VerifierScores(url) ==
    {[is_none |-> FALSE, overall_score |-> s, subject |-> url,
      issues |-> <<"issues_of">> \o url, fix_prompt |-> f] :
        s \in Scores, f \in {EmptyStr, <<"fix_of">> \o url}}

\* prompts.py fix_prompt_from_issues(issues, fix_text)
fix_prompt_from_issues(issues, fix) ==
    IF fix # EmptyStr THEN fix ELSE <<"Fix ONLY these issues">> \o issues

\* prompts.py video_fix_prompt(issues, fix_text)
video_fix_prompt(issues, fix) ==
    IF fix # EmptyStr THEN fix ELSE <<"Fix">> \o issues

\* prompts.py extended_retry_prompt(base_prompt, issues)
extended_retry_prompt(base_prompt, issues) ==
    IF issues # EmptyStr THEN base_prompt \o <<"Fix">> \o issues ELSE base_prompt

\* "if score.overall_score > best['score']: best = {...}"
\* (characters.py 207-218, keyframes.py 259-270)
KeepBest(b, s, url, path) ==
    IF s > b.score THEN [score |-> s, url |-> url, path |-> path] ELSE b

\* client.py download(): every request timed out, RuntimeError
DownloadFail ==
    /\ task \in {"char", "key", "video"}
    /\ pc \in {"wait_gen", "wait_initial", "wait_corr", "wait_retry"}
    /\ m_pc = "ret"
    /\ ~m_ret.still_moderated
    /\ n_dl' = n_dl + 1
    /\ pc' = "raised"
    /\ UNCHANGED <<task, cfg, scene, ret>>
    /\ UNCHANGED <<attempt, iteration, corrections, best, score, fix_text,
                   sample_kw, current_url, video_path, verified, ext_regens>>
    /\ UNCHANGED <<modVars, busVars, extVars>>

\* ======================================================================
\* tasks/characters.py: generate_character_sheet
\* ======================================================================
CharPath(n) == <<"output", "character_sheets", "v", ToString(n)>>

\* lines 70-113: dry run, a mock asset and no generation
CharDryRun ==
    /\ task = "char"
    /\ pc = "begin"
    /\ cfg.dry_run
    /\ ret' = [portrait_url |-> <<"dry-run", "placeholder">>,
               portrait_path |-> <<"output", "character_sheets", "dry_run">>,
               consistency_score |-> 100,
               generation_attempts |-> 0]
    /\ pc' = "done"
    /\ UNCHANGED <<task, cfg, scene>>
    /\ UNCHANGED <<modVars, loopVars, busVars, extVars>>

\* lines 115-117
CharInit ==
    /\ task = "char"
    /\ pc = "begin"
    /\ ~cfg.dry_run
    /\ best' = ZeroBest
    /\ attempt' = 0
    /\ pc' = "loop"
    /\ UNCHANGED <<task, cfg, scene, ret>>
    /\ UNCHANGED <<n_dl, iteration, corrections, score, fix_text, sample_kw,
                   current_url, video_path, verified, ext_regens>>
    /\ UNCHANGED <<modVars, busVars, extVars>>

\* lines 119-149: the next attempt of range(1, max_attempts + 1) generates
CharAttempt ==
    /\ task = "char"
    /\ pc = "loop"
    /\ attempt < max_char_attempts(cfg)
    /\ attempt' = attempt + 1
    /\ ModCall(<<"character_prompt">>, MAX_REWORD_ATTEMPTS)
    /\ sample_kw' = [mode |-> "generate", image_url |-> EmptyStr]
    /\ pc' = "wait_gen"
    /\ UNCHANGED <<task, cfg, scene, ret>>
    /\ UNCHANGED <<n_dl, iteration, corrections, best, score, fix_text,
                   current_url, video_path, verified, ext_regens>>
    /\ UNCHANGED <<busVars, extVars>>

\* variant of the skip: the same attempt index is tried again
CharSkipRetriesIndex ==
    /\ task = "char"
    /\ pc = "wait_gen"
    /\ m_pc = "ret"
    /\ m_ret.still_moderated
    /\ ModTake
    /\ attempt' = attempt - 1
    /\ pc' = "loop"
    /\ UNCHANGED <<task, cfg, scene, ret>>
    /\ UNCHANGED <<n_dl, iteration, corrections, best, score, fix_text, sample_kw,
                   current_url, video_path, verified, ext_regens>>
    /\ UNCHANGED <<busVars, extVars>>

\* lines 150-157: still moderated, continue
CharSkip ==
    /\ task = "char"
    /\ pc = "wait_gen"
    /\ m_pc = "ret"
    /\ m_ret.still_moderated
    /\ ModTake
    /\ pc' = "loop"
    /\ UNCHANGED <<task, cfg, scene, ret>>
    /\ UNCHANGED <<loopVars, busVars, extVars>>

\* variant of the verification step: the loop goes on after an accepted score
CharVerifyNoBreak ==
    /\ task = "char"
    /\ pc = "wait_gen"
    /\ m_pc = "ret"
    /\ ~m_ret.still_moderated
    /\ \E sc \in VerifierScores(m_ret.result) :
          /\ verified' = Append(verified,
                [n |-> attempt, url |-> m_ret.result, path |-> CharPath(attempt),
                 score |-> sc.overall_score, gens |-> n_gen])
          /\ best' = KeepBest(best, sc.overall_score, m_ret.result, CharPath(attempt))
          /\ pc' = "loop"
    /\ n_dl' = n_dl + 1
    /\ ModTake
    /\ UNCHANGED <<task, cfg, scene, ret>>
    /\ UNCHANGED <<attempt, iteration, corrections, score, fix_text, sample_kw,
                   current_url, video_path, ext_regens>>
    /\ UNCHANGED <<busVars, extVars>>

\* lines 159-228: download, vision verify, keep the best, break on the threshold
CharVerify ==
    /\ task = "char"
    /\ pc = "wait_gen"
    /\ m_pc = "ret"
    /\ ~m_ret.still_moderated
    /\ \E sc \in VerifierScores(m_ret.result) :
          /\ verified' = Append(verified,
                [n |-> attempt, url |-> m_ret.result, path |-> CharPath(attempt),
                 score |-> sc.overall_score, gens |-> n_gen])
          /\ best' = KeepBest(best, sc.overall_score, m_ret.result, CharPath(attempt))
          /\ pc' = IF sc.overall_score >= cfg.consistency_threshold
                   THEN "return" ELSE "loop"
    /\ n_dl' = n_dl + 1
    /\ ModTake
    /\ UNCHANGED <<task, cfg, scene, ret>>
    /\ UNCHANGED <<attempt, iteration, corrections, score, fix_text, sample_kw,
                   current_url, video_path, ext_regens>>
    /\ UNCHANGED <<busVars, extVars>>

\* lines 229-235: the for loop's else, every attempt was used
CharExhausted ==
    /\ task = "char"
    /\ pc = "loop"
    /\ ~(attempt < max_char_attempts(cfg))
    /\ pc' = "return"
    /\ UNCHANGED <<task, cfg, scene, ret>>
    /\ UNCHANGED <<modVars, loopVars, busVars, extVars>>

\* variant of the return: the counter is the number of verified attempts
CharReturnCountsVerified ==
    /\ task = "char"
    /\ pc = "return"
    /\ ret' = [portrait_url |-> best.url,
               portrait_path |-> best.path,
               consistency_score |-> best.score,
               generation_attempts |-> Len(verified)]
    /\ pc' = "done"
    /\ UNCHANGED <<task, cfg, scene>>
    /\ UNCHANGED <<modVars, loopVars, busVars, extVars>>

\* lines 245-252
CharReturn ==
    /\ task = "char"
    /\ pc = "return"
    /\ ret' = [portrait_url |-> best.url,
               portrait_path |-> best.path,
               consistency_score |-> best.score,
               generation_attempts |-> attempt]
    /\ pc' = "done"
    /\ UNCHANGED <<task, cfg, scene>>
    /\ UNCHANGED <<modVars, loopVars, busVars, extVars>>

CharStep ==
    \/ CharDryRun
    \/ CharInit
    \/ CharAttempt
    \/ CharSkip
    \/ CharVerify
    \/ CharExhausted
    \/ CharReturn

\* ======================================================================
\* tasks/keyframes.py: compose_keyframe
\* ======================================================================
KeyPath(n) == <<"output", "keyframes", "v", ToString(n)>>

\* lines 132-174: dry run
KeyDryRun ==
    /\ task = "key"
    /\ pc = "begin"
    /\ cfg.dry_run
    /\ ret' = [keyframe_url |-> <<"dry-run", "placeholder">>,
               keyframe_path |-> <<"output", "keyframes", "dry_run">>,
               consistency_score |-> 100,
               generation_attempts |-> 0,
               edit_passes |-> 0]
    /\ pc' = "done"
    /\ UNCHANGED <<task, cfg, scene>>
    /\ UNCHANGED <<modVars, loopVars, busVars, extVars>>

\* lines 176-179
KeyInit ==
    /\ task = "key"
    /\ pc = "begin"
    /\ ~cfg.dry_run
    /\ best' = ZeroBest
    /\ fix_text' = EmptyStr
    /\ iteration' = 0
    /\ score' = NoScore
    /\ pc' = "loop"
    /\ UNCHANGED <<task, cfg, scene, ret>>
    /\ UNCHANGED <<n_dl, attempt, corrections, sample_kw, current_url,
                   video_path, verified, ext_regens>>
    /\ UNCHANGED <<modVars, busVars, extVars>>

\* lines 181-213: iteration 1 composes from the references, a later one
\* edits best["url"] with the fix prompt of the last score
KeyIterate ==
    /\ task = "key"
    /\ pc = "loop"
    /\ iteration < max_keyframe_iters(cfg)
    /\ iteration' = iteration + 1
    /\ IF iteration' = 1
       THEN /\ ModCall(<<"compose_prompt">>, MAX_REWORD_ATTEMPTS)
            /\ sample_kw' = [mode |-> "compose", image_url |-> EmptyStr]
       ELSE /\ ModCall(fix_prompt_from_issues(
                           IF ~score.is_none THEN score.issues ELSE EmptyStr, fix_text),
                       MAX_REWORD_ATTEMPTS)
            /\ sample_kw' = [mode |-> "edit", image_url |-> best.url]
    /\ pc' = "wait_gen"
    /\ UNCHANGED <<task, cfg, scene, ret>>
    /\ UNCHANGED <<n_dl, attempt, corrections, best, score, fix_text,
                   current_url, video_path, verified, ext_regens>>
    /\ UNCHANGED <<busVars, extVars>>

\* lines 214-221: still moderated, continue
KeySkip ==
    /\ task = "key"
    /\ pc = "wait_gen"
    /\ m_pc = "ret"
    /\ m_ret.still_moderated
    /\ ModTake
    /\ pc' = "loop"
    /\ UNCHANGED <<task, cfg, scene, ret>>
    /\ UNCHANGED <<loopVars, busVars, extVars>>

\* lines 223-287: download, vision check, keep the best, break on the
\* threshold, else remember the fix prompt
KeyVerify ==
    /\ task = "key"
    /\ pc = "wait_gen"
    /\ m_pc = "ret"
    /\ ~m_ret.still_moderated
    /\ \E sc \in VerifierScores(m_ret.result) :
          /\ score' = sc
          /\ verified' = Append(verified,
                [n |-> iteration, url |-> m_ret.result, path |-> KeyPath(iteration),
                 score |-> sc.overall_score, gens |-> n_gen])
          /\ best' = KeepBest(best, sc.overall_score, m_ret.result, KeyPath(iteration))
          /\ IF sc.overall_score >= cfg.consistency_threshold
             THEN /\ pc' = "return"
                  /\ UNCHANGED fix_text
             ELSE /\ pc' = "loop"
                  /\ fix_text' = sc.fix_prompt
    /\ n_dl' = n_dl + 1
    /\ ModTake
    /\ UNCHANGED <<task, cfg, scene, ret>>
    /\ UNCHANGED <<attempt, iteration, corrections, sample_kw,
                   current_url, video_path, ext_regens>>
    /\ UNCHANGED <<busVars, extVars>>

\* lines 288-294: the for loop's else
KeyExhausted ==
    /\ task = "key"
    /\ pc = "loop"
    /\ ~(iteration < max_keyframe_iters(cfg))
    /\ pc' = "return"
    /\ UNCHANGED <<task, cfg, scene, ret>>
    /\ UNCHANGED <<modVars, loopVars, busVars, extVars>>

\* lines 304-312
KeyReturn ==
    /\ task = "key"
    /\ pc = "return"
    /\ ret' = [keyframe_url |-> best.url,
               keyframe_path |-> best.path,
               consistency_score |-> best.score,
               generation_attempts |-> 1,
               edit_passes |-> iteration - 1]
    /\ pc' = "done"
    /\ UNCHANGED <<task, cfg, scene>>
    /\ UNCHANGED <<modVars, loopVars, busVars, extVars>>

KeyStep ==
    \/ KeyDryRun
    \/ KeyInit
    \/ KeyIterate
    \/ KeySkip
    \/ KeyVerify
    \/ KeyExhausted
    \/ KeyReturn

\* ======================================================================
\* tasks/video.py: generate_scene_video
\* ======================================================================
KeyframeUrl == <<"https", "cdn", "keyframe">>
VideoPrompt == <<"video_prompt">>

\* variant of the tier test: an 8 second scene counted as extended
correction_eligible_strict(sc) == sc.duration_seconds < 8

\* line 64: correction_eligible = scene.duration_seconds <= 8
correction_eligible(sc) == sc.duration_seconds <= 8

\* lines 58-103: the initial image-to-video generation
VideoStart ==
    /\ task = "video"
    /\ pc = "begin"
    /\ corrections' = 0
    /\ ModCall(VideoPrompt, MAX_REWORD_ATTEMPTS)
    /\ sample_kw' = [mode |-> "image_to_video", image_url |-> KeyframeUrl]
    /\ pc' = "wait_initial"
    /\ UNCHANGED <<task, cfg, scene, ret>>
    /\ UNCHANGED <<n_dl, attempt, iteration, best, score, fix_text,
                   current_url, video_path, verified, ext_regens>>
    /\ UNCHANGED <<busVars, extVars>>

\* variant of the blocked initial generation: the task goes on to its return
VideoInitialBlockedReturns ==
    /\ task = "video"
    /\ pc = "wait_initial"
    /\ m_pc = "ret"
    /\ m_ret.still_moderated
    /\ ModTake
    /\ pc' = "return"
    /\ UNCHANGED <<task, cfg, scene, ret>>
    /\ UNCHANGED <<loopVars, busVars, extVars>>

\* lines 104-107: raise RuntimeError
VideoInitialBlocked ==
    /\ task = "video"
    /\ pc = "wait_initial"
    /\ m_pc = "ret"
    /\ m_ret.still_moderated
    /\ ModTake
    /\ pc' = "raised"
    /\ UNCHANGED <<task, cfg, scene, ret>>
    /\ UNCHANGED <<loopVars, busVars, extVars>>

\* lines 109-127: download, current_url, first and last frame
VideoInitialDownloaded ==
    /\ task = "video"
    /\ pc = "wait_initial"
    /\ m_pc = "ret"
    /\ ~m_ret.still_moderated
    /\ video_path' = <<"output", "videos", "scene">>
    /\ current_url' = m_ret.result
    /\ n_dl' = n_dl + 1
    /\ ModTake
    /\ pc' = "vision_prompt"
    /\ UNCHANGED <<task, cfg, scene, ret>>
    /\ UNCHANGED <<attempt, iteration, corrections, best, score, fix_text,
                   sample_kw, verified, ext_regens>>
    /\ UNCHANGED <<busVars, extVars>>

\* line 129: v_prompt = video_vision_prompt().  prompts.py 185 declares
\* video_vision_prompt(scene, video_config=None); with that declaration the
\* call without an argument raises TypeError (see VideoVisionPromptTypeError)
VideoVisionPrompt ==
    /\ task = "video"
    /\ pc = "vision_prompt"
    /\ pc' = "check_initial"
    /\ UNCHANGED <<task, cfg, scene, ret>>
    /\ UNCHANGED <<modVars, loopVars, busVars, extVars>>

\* line 129 against prompts.py 185: the required argument scene is missing
VideoVisionPromptTypeError ==
    /\ task = "video"
    /\ pc = "vision_prompt"
    /\ pc' = "raised"
    /\ UNCHANGED <<task, cfg, scene, ret>>
    /\ UNCHANGED <<modVars, loopVars, busVars, extVars>>

\* lines 152-159: score = _check_consistency()
VideoInitialCheck ==
    /\ task = "video"
    /\ pc = "check_initial"
    /\ \E sc \in VerifierScores(current_url) :
          /\ score' = sc
          /\ verified' = Append(verified,
                [n |-> 0, kind |-> "initial", url |-> current_url,
                 path |-> video_path, score |-> sc.overall_score])
    /\ pc' = "corr_loop"
    /\ UNCHANGED <<task, cfg, scene, ret>>
    /\ UNCHANGED <<n_dl, attempt, iteration, corrections, best, fix_text,
                   sample_kw, current_url, video_path, ext_regens>>
    /\ UNCHANGED <<modVars, busVars, extVars>>

\* variant of the while condition: the score is not looked at
CorrectionGuardIgnoresScore ==
    /\ corrections < max_video_corrections(cfg)
    /\ correction_eligible(scene)

\* variant of the while condition: the budget test off by one
CorrectionGuardOffByOne ==
    /\ score.overall_score < cfg.consistency_threshold
    /\ corrections <= max_video_corrections(cfg)
    /\ correction_eligible(scene)

\* lines 169-173: the while condition
CorrectionGuard ==
    /\ score.overall_score < cfg.consistency_threshold
    /\ corrections < max_video_corrections(cfg)
    /\ correction_eligible(scene)

\* lines 174-191: one more correction, an edit of current_url
VideoCorrect ==
    /\ task = "video"
    /\ pc = "corr_loop"
    /\ CorrectionGuard
    /\ corrections' = corrections + 1
    /\ ModCall(video_fix_prompt(score.issues, score.fix_prompt), MAX_REWORD_ATTEMPTS)
    /\ sample_kw' = [mode |-> "video_edit", image_url |-> current_url]
    /\ pc' = "wait_corr"
    /\ UNCHANGED <<task, cfg, scene, ret>>
    /\ UNCHANGED <<n_dl, attempt, iteration, best, score, fix_text,
                   current_url, video_path, verified, ext_regens>>
    /\ UNCHANGED <<busVars, extVars>>

\* lines 192-199: still moderated, break
VideoCorrectionBlocked ==
    /\ task = "video"
    /\ pc = "wait_corr"
    /\ m_pc = "ret"
    /\ m_ret.still_moderated
    /\ ModTake
    /\ pc' = "ext_check"
    /\ UNCHANGED <<task, cfg, scene, ret>>
    /\ UNCHANGED <<loopVars, busVars, extVars>>

\* lines 201-219: the correction becomes the current video and is scored
VideoCorrectionChecked ==
    /\ task = "video"
    /\ pc = "wait_corr"
    /\ m_pc = "ret"
    /\ ~m_ret.still_moderated
    /\ current_url' = m_ret.result
    /\ video_path' = <<"output", "videos", "c", ToString(corrections)>>
    /\ n_dl' = n_dl + 1
    /\ \E sc \in VerifierScores(m_ret.result) :
          /\ score' = sc
          /\ verified' = Append(verified,
                [n |-> corrections, kind |-> "correction", url |-> current_url',
                 path |-> video_path', score |-> sc.overall_score])
    /\ ModTake
    /\ pc' = "corr_loop"
    /\ UNCHANGED <<task, cfg, scene, ret>>
    /\ UNCHANGED <<attempt, iteration, corrections, best, fix_text,
                   sample_kw, ext_regens>>
    /\ UNCHANGED <<busVars, extVars>>

\* lines 169-173 false: the while loop ends
VideoCorrectionsEnd ==
    /\ task = "video"
    /\ pc = "corr_loop"
    /\ ~CorrectionGuard
    /\ pc' = "ext_check"
    /\ UNCHANGED <<task, cfg, scene, ret>>
    /\ UNCHANGED <<modVars, loopVars, busVars, extVars>>

\* variant of the retry condition: a score equal to the threshold retries too
ExtendedRetryGuardInclusive ==
    /\ ~correction_eligible(scene)
    /\ score.overall_score <= EXTENDED_RETRY_THRESHOLD

\* line 245: the extended-scene retry condition
ExtendedRetryGuard ==
    /\ ~correction_eligible(scene)
    /\ score.overall_score < EXTENDED_RETRY_THRESHOLD

\* lines 245-256: regenerate from the keyframe with the retry prompt
VideoExtendedRetry ==
    /\ task = "video"
    /\ pc = "ext_check"
    /\ ExtendedRetryGuard
    /\ ModCall(extended_retry_prompt(VideoPrompt, score.issues), MAX_REWORD_ATTEMPTS)
    /\ sample_kw' = [mode |-> "image_to_video", image_url |-> KeyframeUrl]
    /\ ext_regens' = ext_regens + 1
    /\ pc' = "wait_retry"
    /\ UNCHANGED <<task, cfg, scene, ret>>
    /\ UNCHANGED <<n_dl, attempt, iteration, corrections, best, score, fix_text,
                   current_url, video_path, verified>>
    /\ UNCHANGED <<busVars, extVars>>

\* line 257 false: the regeneration is still moderated, nothing changes
VideoRetryBlocked ==
    /\ task = "video"
    /\ pc = "wait_retry"
    /\ m_pc = "ret"
    /\ m_ret.still_moderated
    /\ ModTake
    /\ pc' = "return"
    /\ UNCHANGED <<task, cfg, scene, ret>>
    /\ UNCHANGED <<loopVars, busVars, extVars>>

\* lines 257-270: the regenerated video replaces the current one and is scored
VideoRetryChecked ==
    /\ task = "video"
    /\ pc = "wait_retry"
    /\ m_pc = "ret"
    /\ ~m_ret.still_moderated
    /\ current_url' = m_ret.result
    /\ video_path' = <<"output", "videos", "retry">>
    /\ n_dl' = n_dl + 1
    /\ \E sc \in VerifierScores(m_ret.result) :
          /\ score' = sc
          /\ verified' = Append(verified,
                [n |-> corrections, kind |-> "retry", url |-> current_url',
                 path |-> video_path', score |-> sc.overall_score])
    /\ ModTake
    /\ pc' = "return"
    /\ UNCHANGED <<task, cfg, scene, ret>>
    /\ UNCHANGED <<attempt, iteration, corrections, best, fix_text,
                   sample_kw, ext_regens>>
    /\ UNCHANGED <<busVars, extVars>>

\* line 245 false
VideoNoRetry ==
    /\ task = "video"
    /\ pc = "ext_check"
    /\ ~ExtendedRetryGuard
    /\ pc' = "return"
    /\ UNCHANGED <<task, cfg, scene, ret>>
    /\ UNCHANGED <<modVars, loopVars, busVars, extVars>>

\* lines 280-289
VideoReturn ==
    /\ task = "video"
    /\ pc = "return"
    /\ ret' = [video_url |-> current_url,
               video_path |-> video_path,
               duration |-> scene.duration_seconds,
               consistency_score |-> score.overall_score,
               correction_passes |-> corrections]
    /\ pc' = "done"
    /\ UNCHANGED <<task, cfg, scene>>
    /\ UNCHANGED <<modVars, loopVars, busVars, extVars>>

VideoStep ==
    \/ VideoStart
    \/ VideoInitialBlocked
    \/ VideoInitialDownloaded
    \/ VideoVisionPrompt
    \/ VideoVisionPromptTypeError
    \/ VideoInitialCheck
    \/ VideoCorrect
    \/ VideoCorrectionBlocked
    \/ VideoCorrectionChecked
    \/ VideoCorrectionsEnd
    \/ VideoExtendedRetry
    \/ VideoRetryBlocked
    \/ VideoRetryChecked
    \/ VideoNoRetry
    \/ VideoReturn

\* ======================================================================
\* events.py: EventBus
\* ======================================================================
\* Queues are numbered: 1, 2, ... are the queues subscribe() creates, 0 is a
\* queue a caller built itself and never registered.
\* An Event is [type, run_id, data]; data numbers the events so that two
\* publishes never carry equal events.
EventTypes == {"plan", "complete"}
RunIds == {1}
NoEvent == [type |-> "none", run_id |-> 0, data |-> 0]
NoOp == [op |-> "none", q |-> 0, before |-> <<>>]
QueueIds == 0 .. MaxQueues

Range(f) == {f[i] : i \in DOMAIN f}

\* line 33: asyncio.Queue() is unbounded (maxsize 0)
QueueMaxsize == 0

\* variant: a queue built with maxsize 1
queue_full_bounded(items) == Len(items) >= 1

\* asyncio.Queue.full()
queue_full(items) == QueueMaxsize > 0 /\ Len(items) >= QueueMaxsize

\* asyncio.Queue.put_nowait on a LifoQueue: the newest item is served first
queue_put_lifo(items, e) == <<e>> \o items

\* asyncio.Queue.put_nowait: the item goes to the end of the queue
queue_put(items, e) == Append(items, e)

\* variant: the list is used without the lock
can_acquire_unlocked(holder) == TRUE

\* threading.Lock: "with self._lock" enters only when no thread holds it
can_acquire(holder) == holder = "free"

\* list.remove(x): drops the first item equal to x, ValueError when absent
list_remove(l, x) ==
    IF x \in Range(l)
    THEN LET i == CHOOSE k \in 1 .. Len(l) :
                      l[k] = x /\ \A j \in 1 .. k - 1 : l[j] # x
         IN [raised |-> "none", list |-> SubSeq(l, 1, i - 1) \o SubSeq(l, i + 1, Len(l))]
    ELSE [raised |-> "ValueError", list |-> l]

\* variant: nothing is suppressed
suppress_nothing(exc) == exc

\* contextlib.suppress(ValueError)
suppress_ValueError(exc) == IF exc = "ValueError" THEN "none" ELSE exc

\* the subscriber lists a publish in progress has been running against
Seen(subs) == IF pub_pc = "iter" THEN pub_seen \cup {subs} ELSE pub_seen

\* lines 31-37: subscribe() makes a queue and appends it under the lock
Subscribe ==
    /\ next_q <= MaxQueues
    /\ can_acquire(lock)
    /\ subscribers' = Append(subscribers, next_q)
    /\ next_q' = next_q + 1
    /\ last_op' = [op |-> "subscribe", q |-> next_q, before |-> subscribers]
    /\ pub_seen' = Seen(subscribers')
    /\ UNCHANGED <<lock, queues, consumed, pub_pc, pub_event, pub_it, pub_count,
                   pub_delivered, published, raised>>
    /\ UNCHANGED <<taskVars, modVars, loopVars, extVars>>

\* lines 39-43: unsubscribe(q) removes q under the lock, ValueError suppressed
Unsubscribe ==
    /\ can_acquire(lock)
    /\ \E q \in QueueIds :
          /\ q < next_q
          /\ LET r == list_remove(subscribers, q)
             IN /\ subscribers' = r.list
                /\ raised' = IF suppress_ValueError(r.raised) = "none"
                             THEN raised ELSE r.raised
          /\ last_op' = [op |-> "unsubscribe", q |-> q, before |-> subscribers]
    /\ pub_seen' = Seen(subscribers')
    /\ UNCHANGED <<lock, queues, consumed, next_q, pub_pc, pub_event, pub_it,
                   pub_count, pub_delivered, published>>
    /\ UNCHANGED <<taskVars, modVars, loopVars, extVars>>

\* line 45: the pipeline thread calls publish(event)
PublishCall ==
    /\ pub_pc = "idle"
    /\ raised = "none"
    /\ Len(published) < MaxEvents
    /\ \E t \in EventTypes, r \in RunIds :
          pub_event' = [type |-> t, run_id |-> r, data |-> Len(published) + 1]
    /\ pub_pc' = "acquire"
    /\ pub_delivered' = <<>>
    /\ pub_seen' = {}
    /\ last_op' = [op |-> "publish", q |-> 0, before |-> subscribers]
    /\ UNCHANGED <<subscribers, lock, queues, consumed, next_q, pub_it, pub_count,
                   published, raised>>
    /\ UNCHANGED <<taskVars, modVars, loopVars, extVars>>

\* lines 47-49: with self._lock: count = len(...); the for loop starts
PublishAcquire ==
    /\ pub_pc = "acquire"
    /\ can_acquire(lock)
    /\ lock' = "pipeline"
    /\ pub_count' = Len(subscribers)
    /\ pub_it' = 0
    /\ pub_seen' = {subscribers}
    /\ published' = Append(published, [event |-> pub_event, at |-> subscribers])
    /\ pub_pc' = "iter"
    /\ UNCHANGED <<subscribers, queues, consumed, next_q, pub_event, pub_delivered,
                   last_op, raised>>
    /\ UNCHANGED <<taskVars, modVars, loopVars, extVars>>

\* lines 49-50: the list iterator yields the next queue, q.put_nowait(event);
\* QueueFull would leave the with block and publish
PublishPut ==
    /\ pub_pc = "iter"
    /\ pub_it < Len(subscribers)
    /\ LET q == subscribers[pub_it + 1]
       IN IF queue_full(queues[q])
          THEN /\ raised' = "QueueFull"
               /\ lock' = "free"
               /\ pub_pc' = "idle"
               /\ UNCHANGED <<queues, pub_it, pub_delivered>>
          ELSE /\ queues' = [queues EXCEPT ![q] = queue_put(@, pub_event)]
               /\ pub_it' = pub_it + 1
               /\ pub_delivered' = Append(pub_delivered, q)
               /\ UNCHANGED <<lock, pub_pc, raised>>
    /\ UNCHANGED <<subscribers, consumed, next_q, pub_event, pub_count, pub_seen,
                   published, last_op>>
    /\ UNCHANGED <<taskVars, modVars, loopVars, extVars>>

\* lines 49-56: the iterator is exhausted, the lock is released, publish returns
PublishRelease ==
    /\ pub_pc = "iter"
    /\ ~(pub_it < Len(subscribers))
    /\ lock' = "free"
    /\ pub_pc' = "idle"
    /\ UNCHANGED <<subscribers, queues, consumed, next_q, pub_event, pub_it, pub_count,
                   pub_delivered, pub_seen, published, last_op, raised>>
    /\ UNCHANGED <<taskVars, modVars, loopVars, extVars>>

\* a subscriber reads its queue: q.get() returns the oldest item
QueueGet ==
    /\ \E q \in QueueIds :
          /\ queues[q] # <<>>
          /\ consumed' = [consumed EXCEPT ![q] = Append(@, Head(queues[q]))]
          /\ queues' = [queues EXCEPT ![q] = Tail(@)]
    /\ UNCHANGED <<subscribers, lock, next_q, pub_pc, pub_event, pub_it, pub_count,
                   pub_delivered, pub_seen, published, last_op, raised>>
    /\ UNCHANGED <<taskVars, modVars, loopVars, extVars>>

\* ======================================================================
\* one invocation of one task
\* ======================================================================
DefaultConfig ==
    [max_retries |-> 0, consistency_threshold |-> CONSISTENCY_THRESHOLD,
     dry_run |-> FALSE, max_rewords |-> MAX_REWORD_ATTEMPTS]
DefaultScene == [duration_seconds |-> 8]

\* lines 27-29: EventBus()
BusIdle ==
    /\ subscribers = <<>>
    /\ lock = "free"
    /\ queues = [q \in QueueIds |-> <<>>]
    /\ consumed = [q \in QueueIds |-> <<>>]
    /\ next_q = 1
    /\ pub_pc = "idle"
    /\ pub_event = NoEvent
    /\ pub_it = 0
    /\ pub_count = 0
    /\ pub_delivered = <<>>
    /\ pub_seen = {}
    /\ published = <<>>
    /\ last_op = NoOp
    /\ raised = "none"

TaskIdle ==
    /\ pc = "begin"
    /\ ret = [none |-> TRUE]
    /\ m_pc = "idle"
    /\ m_prompt = EmptyStr
    /\ m_result = EmptyStr
    /\ m_rw = 0
    /\ m_max = 0
    /\ m_ret = NoRet
    /\ gen_log = <<>>
    /\ reword_log = <<>>
    /\ n_gen = 0
    /\ n_dl = 0
    /\ attempt = 0
    /\ iteration = 0
    /\ corrections = 0
    /\ best = ZeroBest
    /\ score = NoScore
    /\ fix_text = EmptyStr
    /\ sample_kw = NoKw
    /\ current_url = EmptyStr
    /\ video_path = EmptyStr
    /\ verified = <<>>
    /\ ext_regens = 0

\* the orchestrator before video_pipeline is called, with an empty database
NoState == [plan |-> FALSE, characters |-> <<>>, keyframes |-> <<>>,
            videos |-> <<>>, final_video_path |-> <<>>]
NoOut == [kind |-> "none", value |-> "none"]
DefaultRun == [n_chars |-> 1, n_scenes |-> 1, dry_run |-> FALSE, observer |-> "null"]

PipeIdle ==
    /\ p_pc = "begin"
    /\ run_id = 0
    /\ futures = [c \in 1 .. MaxChars |-> "none"]
    /\ join_i = 0
    /\ characters = <<>>
    /\ keyframes = <<>>
    /\ prev_url = <<>>
    /\ script = <<>>
    /\ videos = <<>>
    /\ state = NoState
    /\ state_file = NoState
    /\ notified = <<>>
    /\ p_exc = "none"
    /\ p_out = NoOut
    /\ runs = <<>>
    /\ bus_log = <<>>

\* no SSE request yet
SseIdle ==
    /\ sse_pc = "none"
    /\ sse_run = 0
    /\ sse_q = 0
    /\ sse_event = [type |-> "none", run_id |-> 0, data |-> 0]
    /\ sse_out = <<>>

\* lines 72-106 of db.py: the asset tables after init_db
DbIdle ==
    /\ character_assets = <<>>
    /\ keyframe_assets = <<>>
    /\ video_assets = <<>>
    /\ db_ops = <<>>

\* no plan yet: video_pipeline has not got past ideation
NoPlan == [characters |-> <<>>, scenes |-> <<>>]
DefaultRunConfig == [debug |-> FALSE, max_duration |-> 15]

PlanIdle ==
    /\ plan_pc = "none"
    /\ plan_in = NoPlan
    /\ plan = NoPlan
    /\ run_cfg = DefaultRunConfig
    /\ chars_generated = <<>>
    /\ video_prompts = <<>>
    /\ video_tiers = <<>>

\* no download() call in progress
DlIdle ==
    /\ dl_pc = "none"
    /\ dl_url = <<>>
    /\ dl_path = <<>>
    /\ dl_attempt = 0
    /\ dl_resp = "none"
    /\ dl_last_exc = "None"
    /\ dl_requests = <<>>
    /\ dl_slept = <<>>
    /\ dl_ret = <<>>
    /\ dl_exc = "none"

\* no asset has been handed from one stage to the next
HandIdle ==
    /\ hand_pc = "none"
    /\ hand_casts = <<>>
    /\ char_map = <<>>
    /\ keyframe_calls = <<>>
    /\ hand_keyframes = <<>>
    /\ hand_prev_url = <<>>
    /\ video_calls = <<>>

\* the flow has not been re-executed
FlowIdle == flow_retries = 0

InitTasks ==
    /\ \/ /\ task = "mod"
          /\ cfg \in {c \in Configs : /\ c.max_retries = 0
                                      /\ c.consistency_threshold = CONSISTENCY_THRESHOLD
                                      /\ ~c.dry_run}
          /\ scene = DefaultScene
       \/ /\ task \in {"char", "key"}
          /\ cfg \in {c \in Configs : c.max_rewords = MAX_REWORD_ATTEMPTS}
          /\ scene = DefaultScene
       \/ /\ task = "video"
          /\ cfg \in {c \in Configs : c.max_rewords = MAX_REWORD_ATTEMPTS /\ ~c.dry_run}
          /\ scene \in [duration_seconds : Durations]
    /\ TaskIdle
    /\ BusIdle
    /\ p_in = DefaultRun
    /\ PipeIdle
    /\ SseIdle
    /\ DbIdle
    /\ PlanIdle
    /\ DlIdle
    /\ FlowIdle
    /\ HandIdle

NextTasks ==
    \/ ModTaskCall
    \/ ModTaskDone
    \/ ModStep
    \/ DownloadFail
    \/ CharStep
    \/ KeyStep
    \/ VideoStep

SpecTasks == InitTasks /\ [][NextTasks]_vars

\* a task body runs on: no step of it waits for anything but the return of
\* the remote call it made
SpecTasksFair == InitTasks /\ [][NextTasks]_vars /\ WF_vars(NextTasks)

\* ======================================================================
\* the event bus with its publisher, its subscribers and their readers
\* ======================================================================
InitBus ==
    /\ task = "bus"
    /\ cfg = DefaultConfig
    /\ scene = DefaultScene
    /\ TaskIdle
    /\ BusIdle
    /\ p_in = DefaultRun
    /\ PipeIdle
    /\ SseIdle
    /\ DbIdle
    /\ PlanIdle
    /\ DlIdle
    /\ FlowIdle
    /\ HandIdle

NextBus ==
    \/ Subscribe
    \/ Unsubscribe
    \/ PublishCall
    \/ PublishAcquire
    \/ PublishPut
    \/ PublishRelease
    \/ QueueGet

SpecBus == InitBus /\ [][NextBus]_vars

\* ======================================================================
\* db.py: the runs table and the asset tables
\* ======================================================================
\* a table is the sequence of its rows in rowid order
Now == <<"now">>

\* lines 132-141: insert_run appends a 'pending' row; its id is the rowid
insert_run(rows) ==
    Append(rows, [status |-> "pending", title |-> <<>>, script_path |-> <<>>,
                  final_video_path |-> <<>>, completed_at |-> <<>>])

\* lines 148-157: the columns update_run accepts
update_run_allowed ==
    {"title", "style", "aspect_ratio", "color_palette", "status",
     "script_path", "final_video_path", "completed_at"}

\* lines 144-165: update_run sets the allowed columns of the row with that id
update_run(rows, id, fields) ==
    LET cols == DOMAIN fields \cap update_run_allowed IN
    IF cols = {} \/ id \notin DOMAIN rows THEN rows
    ELSE [rows EXCEPT ![id] =
             [k \in DOMAIN @ |-> IF k \in cols THEN fields[k] ELSE @[k]]]

\* the row an upsert writes for a character asset (lines 275-288)
character_row(rid, asset) ==
    [run_id |-> rid, name |-> asset.name, portrait_url |-> asset.portrait_url,
     consistency_score |-> asset.consistency_score]

\* the row an upsert writes for a keyframe asset (lines 308-322)
keyframe_row(rid, asset) ==
    [run_id |-> rid, scene_id |-> asset.scene_id, keyframe_url |-> asset.keyframe_url,
     consistency_score |-> asset.consistency_score]

\* the row an upsert writes for a video asset (lines 342-358)
video_row(rid, asset) ==
    [run_id |-> rid, scene_id |-> asset.scene_id, video_path |-> asset.video_path,
     last_frame_path |-> asset.last_frame_path,
     consistency_score |-> asset.consistency_score]

\* variant of the DELETE: nothing is deleted
delete_nothing(table, rid, name) == table

\* lines 271-274: DELETE FROM character_assets WHERE run_id = ? AND name = ?
delete_character(table, rid, name) ==
    SelectSeq(table, LAMBDA r : ~(r.run_id = rid /\ r.name = name))

\* lines 304-307 and 338-341: DELETE ... WHERE run_id = ? AND scene_id = ?
delete_scene(table, rid, sid) ==
    SelectSeq(table, LAMBDA r : ~(r.run_id = rid /\ r.scene_id = sid))

\* lines 265-289: DELETE, INSERT, commit
upsert_character_asset(table, rid, asset) ==
    Append(delete_character(table, rid, asset.name), character_row(rid, asset))

\* lines 298-323
upsert_keyframe_asset(table, rid, asset) ==
    Append(delete_scene(table, rid, asset.scene_id), keyframe_row(rid, asset))

\* lines 332-359
upsert_video_asset(table, rid, asset) ==
    Append(delete_scene(table, rid, asset.scene_id), video_row(rid, asset))

\* ======================================================================
\* db.py under a sequence of upsert calls
\* ======================================================================
DbRunIds == {1, 2}
CharNames == {"Fox", "Owl"}
SceneIds == 1 .. MaxScenes
AssetScores == {60, 90}

CharacterAssets ==
    [name : CharNames, portrait_url : {<<"portrait">>}, consistency_score : AssetScores]
KeyframeAssets ==
    [scene_id : SceneIds, keyframe_url : {<<"keyframe">>}, consistency_score : AssetScores]
VideoAssets ==
    [scene_id : SceneIds, video_path : {<<"video">>}, last_frame_path : {<<"last">>},
     consistency_score : AssetScores]

DbFrame == UNCHANGED <<taskVars, modVars, loopVars, busVars, pipeVars, sseVars, planVars, dlVars, flowVars, handVars>>

\* db.py lines 265-289, called with any run id and asset
UpsertCharacterAsset ==
    /\ task = "db"
    /\ Len(db_ops) < MaxUpserts
    /\ \E rid \in DbRunIds, asset \in CharacterAssets :
          /\ character_assets' = upsert_character_asset(character_assets, rid, asset)
          /\ db_ops' = Append(db_ops, [table |-> "character_assets", run_id |-> rid,
                                       key |-> asset.name,
                                       row |-> character_row(rid, asset)])
    /\ UNCHANGED <<keyframe_assets, video_assets>>
    /\ DbFrame

\* db.py lines 298-323
UpsertKeyframeAsset ==
    /\ task = "db"
    /\ Len(db_ops) < MaxUpserts
    /\ \E rid \in DbRunIds, asset \in KeyframeAssets :
          /\ keyframe_assets' = upsert_keyframe_asset(keyframe_assets, rid, asset)
          /\ db_ops' = Append(db_ops, [table |-> "keyframe_assets", run_id |-> rid,
                                       key |-> asset.scene_id,
                                       row |-> keyframe_row(rid, asset)])
    /\ UNCHANGED <<character_assets, video_assets>>
    /\ DbFrame

\* db.py lines 332-359
UpsertVideoAsset ==
    /\ task = "db"
    /\ Len(db_ops) < MaxUpserts
    /\ \E rid \in DbRunIds, asset \in VideoAssets :
          /\ video_assets' = upsert_video_asset(video_assets, rid, asset)
          /\ db_ops' = Append(db_ops, [table |-> "video_assets", run_id |-> rid,
                                       key |-> asset.scene_id,
                                       row |-> video_row(rid, asset)])
    /\ UNCHANGED <<character_assets, keyframe_assets>>
    /\ DbFrame

InitDb ==
    /\ task = "db"
    /\ cfg = DefaultConfig
    /\ scene = DefaultScene
    /\ TaskIdle
    /\ BusIdle
    /\ p_in = DefaultRun
    /\ PipeIdle
    /\ SseIdle
    /\ DbIdle
    /\ PlanIdle
    /\ DlIdle
    /\ FlowIdle
    /\ HandIdle

NextDb ==
    \/ UpsertCharacterAsset
    \/ UpsertKeyframeAsset
    \/ UpsertVideoAsset

SpecDb == InitDb /\ [][NextDb]_vars

\* ======================================================================
\* observer.py and pipeline.py: video_pipeline with its observer
\* ======================================================================
\* NullObserver, WebObserver, and an observer whose methods may raise
ObserverKinds == {"null", "web", "raising"}
\* web.py 157-188: "launcher" is the WebObserver of _start_pipeline_thread,
\* whose on_run_start is _patched_run_start; the run it reports on was
\* inserted by create_run (web.py 127) before the thread started
LaunchedRuns == insert_run(<<>>)
LaunchedRunId == Len(LaunchedRuns)
PipelineRuns ==
    [n_chars : 1 .. MaxChars, n_scenes : 1 .. MaxScenes, dry_run : BOOLEAN,
     observer : ObserverKinds]

\* observer.py lines 33-63: the methods of the PipelineObserver protocol
ObserverMethods ==
    {"on_run_start", "on_plan", "on_character", "on_keyframe", "on_script",
     "on_video", "on_complete", "on_error"}

\* what a call of an observer method can do
ObserverOutcomes(kind) ==
    CASE kind = "null" -> {"ok"}
      [] kind \in {"web", "launcher"} -> {"ok", "db_error"}
      [] OTHER -> {"ok", "raise"}

\* the exception that leaves the method: WebObserver wraps every method but
\* on_run_start (lines 101-107) in try/except Exception (lines 109-230)
method_raises(kind, method, outcome) ==
    CASE kind = "raising" /\ outcome = "raise" -> "RuntimeError"
      [] kind \in {"web", "launcher"} /\ outcome = "db_error" /\ method = "on_run_start" ->
            "OperationalError"
      [] OTHER -> "none"

\* getattr(observer, method)(*args)
getattr_call(kind, method, outcome) ==
    IF method \notin ObserverMethods THEN "AttributeError"
    ELSE method_raises(kind, method, outcome)

\* the exception classes of the model, all subclasses of Exception
ExceptionClasses ==
    {"RuntimeError", "OperationalError", "AttributeError", "plan_story",
     "generate_character_sheet", "compose_keyframe", "compile_script",
     "generate_scene_video", "assemble_final_video"}

\* variant of the handler: nothing is caught
except_nothing(exc) == exc

\* pipeline.py lines 74-75: except Exception, log, go on
except_Exception(exc) == IF exc \in ExceptionClasses THEN "none" ELSE exc

\* one observer call: direct (line 248) or through _notify (lines 69-75)
ObserverCall(kind, method, args, outcome, via) ==
    LET exc == getattr_call(kind, method, outcome) IN
    [method |-> method, args |-> args, via |-> via,
     outcome |-> IF method \in ObserverMethods THEN outcome ELSE "no_method",
     called |-> method \in ObserverMethods, exc |-> exc,
     propagated |-> IF via = "_notify" THEN except_Exception(exc) ELSE exc]

\* the event a WebObserver method publishes
EventTypeOf(method) ==
    CASE method = "on_plan" -> "plan"
      [] method = "on_character" -> "character"
      [] method = "on_keyframe" -> "keyframe"
      [] method = "on_script" -> "script"
      [] method = "on_video" -> "video"
      [] method = "on_complete" -> "complete"
      [] method = "on_error" -> "error"

\* the methods of WebObserver that call update_run, and what they pass
WebUpdateMethods == {"on_plan", "on_keyframe", "on_script", "on_complete", "on_error"}

WebFields(method, args) ==
    CASE method = "on_plan" -> [title |-> <<"title">>, status |-> "characters"]
      [] method = "on_keyframe" -> [status |-> "keyframes"]
      [] method = "on_script" -> [status |-> "videos", script_path |-> args.payload]
      [] method = "on_complete" ->
            [status |-> "complete", final_video_path |-> args.payload,
             completed_at |-> Now]
      [] method = "on_error" -> [status |-> "failed", completed_at |-> Now]

WebData(method, args) ==
    IF method = "on_error" THEN [error |-> args.payload] ELSE [value |-> args.payload]

\* observer.py lines 109-230: what the method writes when its database calls
\* succeed; a WebObserver whose first database call fails writes nothing
ObserverEffect(e) ==
    LET web == p_in.observer \in {"web", "launcher"} /\ e.called /\ e.outcome = "ok"
        rid == e.args.run_id
    IN
    /\ notified' = Append(notified, e)
    /\ runs' = IF web /\ e.method \in WebUpdateMethods
               THEN update_run(runs, rid, WebFields(e.method, e.args)) ELSE runs
    /\ character_assets' =
          IF web /\ e.method = "on_character"
          THEN upsert_character_asset(character_assets, rid, e.args.payload)
          ELSE character_assets
    /\ keyframe_assets' =
          IF web /\ e.method = "on_keyframe"
          THEN upsert_keyframe_asset(keyframe_assets, rid, e.args.payload)
          ELSE keyframe_assets
    /\ video_assets' =
          IF web /\ e.method = "on_video"
          THEN upsert_video_asset(video_assets, rid, e.args.payload)
          ELSE video_assets
    /\ bus_log' =
          IF web
          THEN Append(bus_log, [type |-> EventTypeOf(e.method), run_id |-> rid,
                                data |-> WebData(e.method, e.args)])
          ELSE bus_log

obsVars == <<notified, runs, bus_log, character_assets, keyframe_assets, video_assets>>

\* pipeline.py lines 69-75: _notify(observer, method, *args) inside the try
\* of video_pipeline; the pipeline goes on at `next`
Notify(method, payload, next) ==
    \E o \in ObserverOutcomes(p_in.observer) :
        LET e == ObserverCall(p_in.observer, method,
                              [run_id |-> run_id, payload |-> payload], o, "_notify")
        IN /\ ObserverEffect(e)
           /\ p_pc' = IF e.propagated = "none" THEN next ELSE "except"
           /\ p_exc' = IF e.propagated = "none" THEN p_exc ELSE e.propagated

\* a task call raises inside the try (lines 251-561)
TaskRaises(exc) ==
    /\ p_exc' = exc
    /\ p_pc' = "except"
    /\ UNCHANGED obsVars

PipeFrame == UNCHANGED <<taskVars, modVars, loopVars, busVars, sseVars, db_ops, planVars, dlVars, flowVars, handVars>>

\* the assets the tasks return
CharacterAssetOf(c) ==
    [name |-> ToString(c), portrait_url |-> <<"portrait", ToString(c)>>,
     consistency_score |-> 90]
KeyframeUrls(s) == {<<"keyframe", ToString(s)>>, <<>>}
KeyframeAssetOf(s, url, prev) ==
    [scene_id |-> s, keyframe_url |-> url, consistency_score |-> 90,
     prev_last_frame_url |-> prev]
VideoAssetOf(s) ==
    [scene_id |-> s, video_path |-> <<"output", "videos", ToString(s)>>,
     last_frame_path |-> <<"output", "frames", ToString(s), "last">>,
     consistency_score |-> 90]

\* line 248: run_id = observer.on_run_start(concept), before the try
PipeRunStart ==
    /\ p_pc = "begin"
    /\ \E o \in ObserverOutcomes(p_in.observer) :
          LET kind == p_in.observer
              e == ObserverCall(kind, "on_run_start",
                                [run_id |-> 0, payload |-> <<"concept">>], o, "direct")
          IN /\ notified' = Append(notified, e)
             /\ IF e.propagated # "none"
                THEN /\ p_exc' = e.propagated
                     /\ p_out' = [kind |-> "raised", value |-> e.propagated]
                     /\ p_pc' = "raised"
                     /\ UNCHANGED <<run_id, runs, bus_log>>
                ELSE /\ run_id' = CASE kind = "null" -> 0
                                     [] kind = "launcher" -> LaunchedRunId
                                     [] OTHER -> Len(runs) + 1
                     /\ runs' = CASE kind = "web" ->
                                        update_run(insert_run(runs), Len(runs) + 1,
                                                   [status |-> "ideation"])
                                   [] kind = "launcher" ->
                                        update_run(runs, LaunchedRunId,
                                                   [status |-> "ideation"])
                                   [] OTHER -> runs
                     /\ bus_log' = IF kind \in {"web", "launcher"}
                                   THEN Append(bus_log,
                                               [type |-> "run_start",
                                                run_id |-> run_id',
                                                data |-> [value |-> <<"concept">>]])
                                   ELSE bus_log
                     /\ p_pc' = "plan"
                     /\ UNCHANGED <<p_exc, p_out>>
    /\ UNCHANGED <<p_in, futures, join_i, characters, keyframes, prev_url, script,
                   videos, state, state_file>>
    /\ UNCHANGED <<character_assets, keyframe_assets, video_assets>>
    /\ PipeFrame

\* lines 252-398: the plan (provided or from plan_story), then on_plan
PipePlan ==
    /\ p_pc = "plan"
    /\ \/ TaskRaises("plan_story")
       \/ Notify("on_plan", p_in.n_scenes, "submit")
    /\ UNCHANGED <<p_in, run_id, futures, join_i, characters, keyframes, prev_url,
                   script, videos, state, state_file, p_out>>
    /\ PipeFrame

\* lines 403-413: one generate_character_sheet.submit per character
PipeSubmitChars ==
    /\ p_pc = "submit"
    /\ futures' = [c \in 1 .. MaxChars |-> IF c <= p_in.n_chars THEN "running" ELSE "none"]
    /\ join_i' = 0
    /\ p_pc' = "join"
    /\ UNCHANGED <<p_in, run_id, characters, keyframes, prev_url, script, videos,
                   state, state_file, p_exc, p_out>>
    /\ UNCHANGED obsVars
    /\ PipeFrame

\* a submitted character-sheet unit of work ends, in its own worker
CharTaskFinish ==
    /\ \E c \in 1 .. MaxChars :
          /\ futures[c] = "running"
          /\ \E r \in {"completed", "failed"} : futures' = [futures EXCEPT ![c] = r]
    /\ UNCHANGED <<p_pc, p_in, run_id, join_i, characters, keyframes, prev_url, script,
                   videos, state, state_file, p_exc, p_out>>
    /\ UNCHANGED obsVars
    /\ PipeFrame

\* variant of the join: result() does not wait
future_done_nowait(f) == TRUE

\* PrefectFuture.result() returns or raises once the unit of work has ended
future_done(f) == f \in {"completed", "failed"}

\* line 414: characters = [f.result() for f in char_futures]
PipeJoinChar ==
    /\ p_pc = "join"
    /\ join_i < p_in.n_chars
    /\ future_done(futures[join_i + 1])
    /\ IF futures[join_i + 1] = "failed"
       THEN /\ p_exc' = "generate_character_sheet"
            /\ p_pc' = "except"
            /\ UNCHANGED <<join_i, characters>>
       ELSE /\ characters' = Append(characters, CharacterAssetOf(join_i + 1))
            /\ join_i' = IF join_i + 1 = p_in.n_chars THEN 0 ELSE join_i + 1
            /\ p_pc' = IF join_i + 1 = p_in.n_chars THEN "notify_chars" ELSE "join"
            /\ UNCHANGED p_exc
    /\ UNCHANGED <<p_in, run_id, futures, keyframes, prev_url, script, videos, state,
                   state_file, p_out>>
    /\ UNCHANGED obsVars
    /\ PipeFrame

\* lines 416-428: on_character for each joined asset
PipeNotifyChar ==
    /\ p_pc = "notify_chars"
    /\ join_i < p_in.n_chars
    /\ join_i' = IF join_i + 1 = p_in.n_chars THEN 0 ELSE join_i + 1
    /\ Notify("on_character", characters[join_i + 1],
              IF join_i + 1 = p_in.n_chars THEN "keyframes" ELSE "notify_chars")
    /\ UNCHANGED <<p_in, run_id, futures, characters, keyframes, prev_url, script,
                   videos, state, state_file, p_out>>
    /\ PipeFrame

\* variant of the keyframe loop: the scenes are taken last to first
PipeKeyframeReversed ==
    /\ p_pc = "keyframes"
    /\ Len(keyframes) < p_in.n_scenes
    /\ \/ /\ TaskRaises("compose_keyframe")
          /\ UNCHANGED <<keyframes, prev_url>>
       \/ \E url \in KeyframeUrls(p_in.n_scenes - Len(keyframes)) :
             LET kf == KeyframeAssetOf(p_in.n_scenes - Len(keyframes), url, prev_url) IN
             /\ keyframes' = Append(keyframes, kf)
             /\ prev_url' = kf.keyframe_url
             /\ Notify("on_keyframe", kf,
                       IF Len(keyframes) + 1 = p_in.n_scenes THEN "script" ELSE "keyframes")
    /\ UNCHANGED <<p_in, run_id, futures, join_i, characters, script, videos, state,
                   state_file, p_out>>
    /\ PipeFrame

\* lines 433-462: compose_keyframe(scene, plan, char_map, prev_url), then
\* prev_url = kf.keyframe_url and on_keyframe
PipeKeyframe ==
    /\ p_pc = "keyframes"
    /\ Len(keyframes) < p_in.n_scenes
    /\ \/ /\ TaskRaises("compose_keyframe")
          /\ UNCHANGED <<keyframes, prev_url>>
       \/ \E url \in KeyframeUrls(Len(keyframes) + 1) :
             LET kf == KeyframeAssetOf(Len(keyframes) + 1, url, prev_url) IN
             /\ keyframes' = Append(keyframes, kf)
             /\ prev_url' = kf.keyframe_url
             /\ Notify("on_keyframe", kf,
                       IF Len(keyframes) + 1 = p_in.n_scenes THEN "script" ELSE "keyframes")
    /\ UNCHANGED <<p_in, run_id, futures, join_i, characters, script, videos, state,
                   state_file, p_out>>
    /\ PipeFrame

\* lines 467-474: compile_script, on_script, then the intermediate snapshot
PipeScript ==
    /\ p_pc = "script"
    /\ \/ /\ TaskRaises("compile_script")
          /\ UNCHANGED <<script, state, state_file>>
       \/ /\ script' = <<"output", "script.md">>
          /\ Notify("on_script", <<"output", "script.md">>, "video_start")
          /\ IF p_pc' = "video_start"
             THEN /\ state' = [plan |-> TRUE, characters |-> characters,
                               keyframes |-> keyframes, videos |-> <<>>,
                               final_video_path |-> <<>>]
                  /\ state_file' = state'
             ELSE UNCHANGED <<state, state_file>>
    /\ UNCHANGED <<p_in, run_id, futures, join_i, characters, keyframes, prev_url,
                   videos, p_out>>
    /\ PipeFrame

\* lines 480-499: the next scene of the video loop, on_video_start
PipeVideoStart ==
    /\ p_pc = "video_start"
    /\ Len(videos) < p_in.n_scenes
    /\ Notify("on_video_start", Len(videos) + 1, "video_gen")
    /\ UNCHANGED <<p_in, run_id, futures, join_i, characters, keyframes, prev_url,
                   script, videos, state, state_file, p_out>>
    /\ PipeFrame

\* lines 500-519: generate_scene_video, videos.append, on_video
PipeVideo ==
    /\ p_pc = "video_gen"
    /\ \/ /\ TaskRaises("generate_scene_video")
          /\ UNCHANGED videos
       \/ /\ videos' = Append(videos, VideoAssetOf(Len(videos) + 1))
          /\ Notify("on_video", VideoAssetOf(Len(videos) + 1),
                    IF Len(videos) + 1 = p_in.n_scenes THEN "assembly" ELSE "video_start")
    /\ UNCHANGED <<p_in, run_id, futures, join_i, characters, keyframes, prev_url,
                   script, state, state_file, p_out>>
    /\ PipeFrame

\* lines 522-561: the dry-run summary or assemble_final_video, the final
\* snapshot, on_complete, return
PipeAssemble ==
    /\ p_pc = "assembly"
    /\ \/ /\ ~p_in.dry_run
          /\ TaskRaises("assemble_final_video")
          /\ UNCHANGED <<state, state_file, p_out>>
       \/ LET final == IF p_in.dry_run THEN <<"output", "dry_run", "summary.md">>
                       ELSE <<"output", "final_video.mp4">>
          IN /\ state' = [state EXCEPT !.videos = videos,
                                       !.final_video_path =
                                           IF p_in.dry_run THEN @ ELSE final]
             /\ state_file' = state'
             /\ Notify("on_complete", final, "returned")
             /\ p_out' = IF p_pc' = "returned"
                         THEN [kind |-> "returned", value |-> final] ELSE p_out
    /\ UNCHANGED <<p_in, run_id, futures, join_i, characters, keyframes, prev_url,
                   script, videos>>
    /\ PipeFrame

\* variant of the handler: the failure is reported and the function returns
PipeExceptSwallows ==
    /\ p_pc = "except"
    /\ \E o \in ObserverOutcomes(p_in.observer) :
          ObserverEffect(ObserverCall(p_in.observer, "on_error",
                                      [run_id |-> run_id, payload |-> p_exc], o, "_notify"))
    /\ p_out' = [kind |-> "returned", value |-> "none"]
    /\ p_pc' = "returned"
    /\ UNCHANGED <<p_in, run_id, futures, join_i, characters, keyframes, prev_url,
                   script, videos, state, state_file, p_exc>>
    /\ PipeFrame

\* lines 563-568: except Exception as exc: _notify(on_error, str(exc)); raise
PipeExcept ==
    /\ p_pc = "except"
    /\ \E o \in ObserverOutcomes(p_in.observer) :
          LET e == ObserverCall(p_in.observer, "on_error",
                                [run_id |-> run_id, payload |-> p_exc], o, "_notify")
          IN /\ ObserverEffect(e)
             /\ p_out' = [kind |-> "raised",
                          value |-> IF e.propagated = "none" THEN p_exc
                                    ELSE e.propagated]
    /\ p_pc' = "raised"
    /\ UNCHANGED <<p_in, run_id, futures, join_i, characters, keyframes, prev_url,
                   script, videos, state, state_file, p_exc>>
    /\ PipeFrame

InitPipeline ==
    /\ task = "pipeline"
    /\ cfg = DefaultConfig
    /\ scene = DefaultScene
    /\ TaskIdle
    /\ BusIdle
    /\ p_in \in PipelineRuns
    /\ PipeIdle
    /\ SseIdle
    /\ DbIdle
    /\ PlanIdle
    /\ DlIdle
    /\ FlowIdle
    /\ HandIdle

NextPipeline ==
    \/ PipeRunStart
    \/ PipePlan
    \/ PipeSubmitChars
    \/ CharTaskFinish
    \/ PipeJoinChar
    \/ PipeNotifyChar
    \/ PipeKeyframe
    \/ PipeScript
    \/ PipeVideoStart
    \/ PipeVideo
    \/ PipeAssemble
    \/ PipeExcept

SpecPipeline == InitPipeline /\ [][NextPipeline]_vars

\* ======================================================================
\* pipeline.py 169-174: @flow(retries=1) around video_pipeline, started by
\* web.py _start_pipeline_thread
\* ======================================================================
FLOW_RETRIES == 1

LauncherRuns == [n_chars : {1}, n_scenes : {1}, dry_run : BOOLEAN, observer : {"launcher"}]

\* the flow function raised and a retry is left: it is called again with the
\* same arguments, the same observer among them; its locals start afresh,
\* the database, the bus and the state file are as the failed execution left them
FlowRetry ==
    /\ p_pc = "raised"
    /\ flow_retries < FLOW_RETRIES
    /\ flow_retries' = flow_retries + 1
    /\ p_pc' = "begin"
    /\ run_id' = 0
    /\ futures' = [c \in 1 .. MaxChars |-> "none"]
    /\ join_i' = 0
    /\ characters' = <<>>
    /\ keyframes' = <<>>
    /\ prev_url' = <<>>
    /\ script' = <<>>
    /\ videos' = <<>>
    /\ state' = NoState
    /\ p_exc' = "none"
    /\ p_out' = NoOut
    /\ UNCHANGED <<p_in, state_file, notified, runs, bus_log>>
    /\ UNCHANGED <<taskVars, modVars, loopVars, busVars, sseVars, dbVars, planVars, dlVars,
                   handVars>>

InitFlow ==
    /\ task = "pipeline"
    /\ cfg = DefaultConfig
    /\ scene = DefaultScene
    /\ TaskIdle
    /\ BusIdle
    /\ p_in \in LauncherRuns
    /\ p_pc = "begin"
    /\ run_id = 0
    /\ futures = [c \in 1 .. MaxChars |-> "none"]
    /\ join_i = 0
    /\ characters = <<>>
    /\ keyframes = <<>>
    /\ prev_url = <<>>
    /\ script = <<>>
    /\ videos = <<>>
    /\ state = NoState
    /\ state_file = NoState
    /\ notified = <<>>
    /\ p_exc = "none"
    /\ p_out = NoOut
    /\ runs = LaunchedRuns
    /\ bus_log = <<>>
    /\ SseIdle
    /\ DbIdle
    /\ PlanIdle
    /\ DlIdle
    /\ FlowIdle
    /\ HandIdle

NextFlow ==
    \/ PipeRunStart
    \/ PipePlan
    \/ PipeSubmitChars
    \/ CharTaskFinish
    \/ PipeJoinChar
    \/ PipeNotifyChar
    \/ PipeKeyframe
    \/ PipeScript
    \/ PipeVideoStart
    \/ PipeVideo
    \/ PipeAssemble
    \/ PipeExcept
    \/ FlowRetry

SpecFlow == InitFlow /\ [][NextFlow]_vars

\* ======================================================================
\* web.py: the SSE stream of one run, fed by the event bus
\* ======================================================================
\* the runs whose events are on the bus while the stream is open
SseRunIds == {1, 2}

\* observer.py publishes these types; "complete" and "error" end a run
SseEventTypes == {"plan", "complete", "error"}

\* SseFrame: the endpoint touches the bus and its own generator only
SseFrame == UNCHANGED <<taskVars, modVars, loopVars, pipeVars, dbVars, planVars, dlVars, flowVars, handVars>>

\* variant: no filter on the run
sse_matches_any(event, r) == TRUE

\* line 203: if event.run_id == run_id
sse_matches(event, r) == event.run_id = r

\* variant: only "complete" ends the stream
is_terminal_complete_only(type) == type = "complete"

\* line 206: if event.type in ("complete", "error")
is_terminal(type) == type \in {"complete", "error"}

\* line 205: f"event: {event.type}\ndata: {json.dumps(event.data)}\n\n";
\* the chunk carries the type and the data, not the run id
sse_chunk(event) == <<"event:", event.type, "data:", ToString(event.data)>>

\* lines 194-197 and 216-220: GET /sse/{run_id} subscribes a new queue and returns
\* the streaming response around generate()
SseOpen ==
    /\ sse_pc = "none"
    /\ next_q <= MaxQueues
    /\ can_acquire(lock)
    /\ \E r \in SseRunIds : sse_run' = r
    /\ subscribers' = Append(subscribers, next_q)
    /\ sse_q' = next_q
    /\ next_q' = next_q + 1
    /\ last_op' = [op |-> "subscribe", q |-> next_q, before |-> subscribers]
    /\ pub_seen' = Seen(subscribers')
    /\ sse_pc' = "get"
    /\ UNCHANGED <<lock, queues, consumed, pub_pc, pub_event, pub_it, pub_count,
                   pub_delivered, published, raised>>
    /\ UNCHANGED <<sse_event, sse_out>>
    /\ SseFrame

\* the pipeline thread of some run publishes its next event (observer.py,
\* self._bus.publish(Event(type=..., run_id=..., data=...)))
SsePublishCall ==
    /\ pub_pc = "idle"
    /\ raised = "none"
    /\ Len(published) < MaxStreamEvents
    /\ \E t \in SseEventTypes, r \in SseRunIds :
          pub_event' = [type |-> t, run_id |-> r, data |-> Len(published) + 1]
    /\ pub_pc' = "acquire"
    /\ pub_delivered' = <<>>
    /\ pub_seen' = {}
    /\ last_op' = [op |-> "publish", q |-> 0, before |-> subscribers]
    /\ UNCHANGED <<subscribers, lock, queues, consumed, next_q, pub_it, pub_count,
                   published, raised>>
    /\ UNCHANGED sseVars
    /\ SseFrame

\* lines 201-205: event = await queue.get(); an event of this run is yielded,
\* any other event is dropped and the loop waits again
SseGet ==
    /\ sse_pc = "get"
    /\ queues[sse_q] # <<>>
    /\ LET event == Head(queues[sse_q])
       IN /\ sse_event' = event
          /\ consumed' = [consumed EXCEPT ![sse_q] = Append(@, event)]
          /\ queues' = [queues EXCEPT ![sse_q] = Tail(@)]
          /\ IF sse_matches(event, sse_run)
             THEN /\ sse_out' = Append(sse_out, [chunk |-> sse_chunk(event), event |-> event])
                  /\ sse_pc' = "yielded"
             ELSE /\ sse_out' = sse_out
                  /\ sse_pc' = "get"
    /\ UNCHANGED <<subscribers, lock, next_q, pub_pc, pub_event, pub_it, pub_count,
                   pub_delivered, pub_seen, published, last_op, raised>>
    /\ UNCHANGED <<sse_run, sse_q>>
    /\ SseFrame

\* lines 206-212: the response asks for the next chunk; after a terminal event
\* the loop breaks, otherwise it waits for the next event
SseResume ==
    /\ sse_pc = "yielded"
    /\ sse_pc' = IF is_terminal(sse_event.type) THEN "finally" ELSE "get"
    /\ UNCHANGED <<sse_run, sse_q, sse_event, sse_out>>
    /\ UNCHANGED busVars
    /\ SseFrame

\* the client goes away while the generator waits at queue.get() or is
\* suspended at the yield: CancelledError / GeneratorExit reaches the try
SseDisconnect ==
    /\ sse_pc \in {"get", "yielded"}
    /\ sse_pc' = "cancelled"
    /\ UNCHANGED <<sse_run, sse_q, sse_event, sse_out>>
    /\ UNCHANGED busVars
    /\ SseFrame

\* lines 213-214: finally: event_bus.unsubscribe(queue)
SseFinally ==
    /\ sse_pc \in {"finally", "cancelled"}
    /\ can_acquire(lock)
    /\ LET r == list_remove(subscribers, sse_q)
       IN /\ subscribers' = r.list
          /\ raised' = IF suppress_ValueError(r.raised) = "none" THEN raised ELSE r.raised
    /\ last_op' = [op |-> "unsubscribe", q |-> sse_q, before |-> subscribers]
    /\ pub_seen' = Seen(subscribers')
    /\ sse_pc' = IF sse_pc = "finally" THEN "closed" ELSE "disconnected"
    /\ UNCHANGED <<lock, queues, consumed, next_q, pub_pc, pub_event, pub_it,
                   pub_count, pub_delivered, published>>
    /\ UNCHANGED <<sse_run, sse_q, sse_event, sse_out>>
    /\ SseFrame

InitSse ==
    /\ task = "sse"
    /\ cfg = DefaultConfig
    /\ scene = DefaultScene
    /\ TaskIdle
    /\ BusIdle
    /\ p_in = DefaultRun
    /\ PipeIdle
    /\ SseIdle
    /\ DbIdle
    /\ PlanIdle
    /\ DlIdle
    /\ FlowIdle
    /\ HandIdle

NextSse ==
    \/ SseOpen
    \/ Subscribe
    \/ SsePublishCall
    \/ PublishAcquire
    \/ PublishPut
    \/ PublishRelease
    \/ SseGet
    \/ SseResume
    \/ SseDisconnect
    \/ SseFinally

SpecSse == InitSse /\ [][NextSse]_vars

\* ======================================================================
\* pipeline.py: the plan between ideation and generation, and the tier of
\* each scene at keyframe time and at video time
\* ======================================================================
\* PipelineConfig.max_duration (3 .. 15): the floor, the tier bound, the default
MaxDurations == {3, 8, 15}

RunConfigs == [debug : BOOLEAN, max_duration : MaxDurations]

\* StoryPlan.characters: the names, in plan order
CharacterLists == {<<>>, <<"Fox">>, <<"Owl">>, <<"Fox", "Owl">>}

\* StoryPlan.scenes with n scenes: ids in plan order, any duration, any cast
ScenesOfLen(n) ==
    {[i \in 1 .. n |-> [scene_id |-> i, duration_seconds |-> d[i],
                        characters_present |-> c[i]]] :
        d \in [1 .. n -> Durations], c \in [1 .. n -> SUBSET CharNames]}

\* the plans plan_story or --script may hand over (scenes: list[Scene])
StoryPlans ==
    [characters : CharacterLists,
     scenes : UNION {ScenesOfLen(n) : n \in 0 .. MaxScenes}]

PlanFrame == UNCHANGED <<taskVars, modVars, loopVars, busVars, pipeVars, sseVars, dbVars, dlVars, flowVars, handVars>>

\* min(a, b)
min(a, b) == IF a <= b THEN a ELSE b

\* variant of the tier test of the prompt: an 8 second scene gets two phases
build_video_prompt_inclusive(duration_seconds) ==
    IF duration_seconds < 8
    THEN <<"summary", "camera", "action", "mood", "style", "Smooth cinematic motion.">>
    ELSE <<"style", "Phase 1", "0", ToString(duration_seconds \div 2), "action",
           "Phase 2", ToString(duration_seconds \div 2), ToString(duration_seconds),
           "summary", "camera", "mood", "Maintain", "action">>

\* prompts.py build_video_prompt: the one-paragraph prompt up to 8 seconds,
\* else the Phase 1 / Phase 2 prompt split at duration_seconds // 2
build_video_prompt(duration_seconds) ==
    IF duration_seconds <= 8
    THEN <<"summary", "camera", "action", "mood", "style", "Smooth cinematic motion.">>
    ELSE <<"style", "Phase 1", "0", ToString(duration_seconds \div 2), "action",
           "Phase 2", ToString(duration_seconds \div 2), ToString(duration_seconds),
           "summary", "camera", "mood", "Maintain", "action">>

\* lines 369-381: debug mode keeps the first scene and the characters in it
PlanDebugTrim ==
    /\ plan_pc = "debug"
    /\ IF run_cfg.debug /\ Len(plan.scenes) > 1
       THEN plan' = [scenes |-> SubSeq(plan.scenes, 1, 1),
                     characters |->
                         SelectSeq(plan.characters,
                                   LAMBDA c : c \in plan.scenes[1].characters_present)]
       ELSE plan' = plan
    /\ plan_pc' = "clamp"
    /\ UNCHANGED <<plan_in, run_cfg, chars_generated, video_prompts, video_tiers>>
    /\ PlanFrame

\* lines 383-394: every scene's duration becomes min(duration, max_duration)
PlanClamp ==
    /\ plan_pc = "clamp"
    /\ plan' = [plan EXCEPT !.scenes =
                   [i \in DOMAIN plan.scenes |->
                       [plan.scenes[i] EXCEPT !.duration_seconds =
                           min(@, run_cfg.max_duration)]]]
    /\ plan_pc' = "characters"
    /\ UNCHANGED <<plan_in, run_cfg, chars_generated, video_prompts, video_tiers>>
    /\ PlanFrame

\* lines 400-414: one character sheet per character of the plan
PlanCharacters ==
    /\ plan_pc = "characters"
    /\ chars_generated' = plan.characters
    /\ plan_pc' = IF plan.scenes = <<>> THEN "done" ELSE "keyframes"
    /\ UNCHANGED <<plan_in, plan, run_cfg, video_prompts, video_tiers>>
    /\ PlanFrame

\* pipeline.py 435-450 and keyframes.py 113-130: compose_keyframe of the next
\* scene builds the video prompt of that scene from its duration
PlanKeyframe ==
    /\ plan_pc = "keyframes"
    /\ LET i == Len(video_prompts) + 1
           sc == plan.scenes[i]
       IN /\ video_prompts' = Append(video_prompts,
                 [scene_id |-> sc.scene_id, duration_seconds |-> sc.duration_seconds,
                  video_prompt |-> build_video_prompt(sc.duration_seconds)])
          /\ plan_pc' = IF i = Len(plan.scenes) THEN "videos" ELSE "keyframes"
    /\ UNCHANGED <<plan_in, plan, run_cfg, chars_generated, video_tiers>>
    /\ PlanFrame

\* pipeline.py 479-506 and video.py 64-69, 88: generate_scene_video of the
\* next scene decides the tier and takes the prompt stored in the keyframe
PlanVideo ==
    /\ plan_pc = "videos"
    /\ LET i == Len(video_tiers) + 1
           sc == plan.scenes[i]
       IN /\ video_tiers' = Append(video_tiers,
                 [scene_id |-> sc.scene_id, duration_seconds |-> sc.duration_seconds,
                  correction_eligible |-> correction_eligible(sc),
                  vid_prompt |-> video_prompts[i].video_prompt])
          /\ plan_pc' = IF i = Len(plan.scenes) THEN "done" ELSE "videos"
    /\ UNCHANGED <<plan_in, plan, run_cfg, chars_generated, video_prompts>>
    /\ PlanFrame

InitPlan ==
    /\ task = "plan"
    /\ cfg = DefaultConfig
    /\ scene = DefaultScene
    /\ TaskIdle
    /\ BusIdle
    /\ p_in = DefaultRun
    /\ PipeIdle
    /\ SseIdle
    /\ DbIdle
    /\ plan_pc = "debug"
    /\ plan_in \in StoryPlans
    /\ plan = plan_in
    /\ run_cfg \in RunConfigs
    /\ chars_generated = <<>>
    /\ video_prompts = <<>>
    /\ video_tiers = <<>>
    /\ DlIdle
    /\ FlowIdle
    /\ HandIdle

NextPlan ==
    \/ PlanDebugTrim
    \/ PlanClamp
    \/ PlanCharacters
    \/ PlanKeyframe
    \/ PlanVideo

SpecPlan == InitPlan /\ [][NextPlan]_vars

\* ======================================================================
\* client.py: download(url, path)
\* ======================================================================
DOWNLOAD_RETRIES == 3

\* the temporary URLs and the target paths a caller passes
DownloadUrls == {<<"https", "a.png">>, <<"https", "b.mp4">>}
DownloadPaths == {<<"output", "a.png">>, <<"output", "b.mp4">>}

\* what one requests.get(url, timeout=DOWNLOAD_TIMEOUT) may end in: a
\* response with a status code, or one of the two transport exceptions
RequestOutcomes == {"200", "404", "500", "Timeout", "ConnectionError"}

DlFrame == UNCHANGED <<taskVars, modVars, loopVars, busVars, pipeVars, sseVars,
                       dbVars, planVars, flowVars, handVars>>

\* the exception in flight after requests.get and r.raise_for_status()
raised_by(outcome) ==
    CASE outcome = "200" -> "none"
      [] outcome \in {"404", "500"} -> "HTTPError"
      [] OTHER -> outcome

\* variant of the except clause: "except requests.exceptions.RequestException"
except_RequestException(exc) == exc # "none"

\* "except (requests.exceptions.Timeout, requests.exceptions.ConnectionError)"
except_Timeout_ConnectionError(exc) == exc \in {"Timeout", "ConnectionError"}

\* last_exc = None; for attempt in range(1, DOWNLOAD_RETRIES + 1):
DownloadCall ==
    /\ task = "download"
    /\ dl_pc = "call"
    /\ dl_attempt' = 1
    /\ dl_last_exc' = "None"
    /\ dl_pc' = "request"
    /\ UNCHANGED <<dl_url, dl_path, dl_resp, dl_requests, dl_slept, dl_ret, dl_exc>>
    /\ DlFrame

\* r = requests.get(url, timeout=DOWNLOAD_TIMEOUT)
DownloadRequest ==
    /\ task = "download"
    /\ dl_pc = "request"
    /\ dl_attempt <= DOWNLOAD_RETRIES
    /\ \E o \in RequestOutcomes :
        /\ dl_resp' = o
        /\ dl_requests' = Append(dl_requests, [url |-> dl_url, outcome |-> o])
    /\ dl_pc' = "got"
    /\ UNCHANGED <<dl_url, dl_path, dl_attempt, dl_last_exc, dl_slept, dl_ret, dl_exc>>
    /\ DlFrame

\* r.raise_for_status() passes; the content is written; return path
DownloadReturn ==
    /\ task = "download"
    /\ dl_pc = "got"
    /\ raised_by(dl_resp) = "none"
    /\ dl_ret' = dl_path
    /\ dl_pc' = "done"
    /\ UNCHANGED <<dl_url, dl_path, dl_attempt, dl_resp, dl_last_exc, dl_requests,
                   dl_slept, dl_exc>>
    /\ DlFrame

\* an exception the except clause does not name leaves download() as it is
DownloadPropagate ==
    /\ task = "download"
    /\ dl_pc = "got"
    /\ raised_by(dl_resp) # "none"
    /\ ~except_Timeout_ConnectionError(raised_by(dl_resp))
    /\ dl_exc' = raised_by(dl_resp)
    /\ dl_pc' = "raised"
    /\ UNCHANGED <<dl_url, dl_path, dl_attempt, dl_resp, dl_last_exc, dl_requests,
                   dl_slept, dl_ret>>
    /\ DlFrame

\* the except clause: last_exc = exc; sleep 2 * attempt unless it was the
\* last attempt; then the next attempt, or the end of the for loop
DownloadCaught ==
    /\ task = "download"
    /\ dl_pc = "got"
    /\ except_Timeout_ConnectionError(raised_by(dl_resp))
    /\ dl_last_exc' = raised_by(dl_resp)
    /\ dl_slept' = IF dl_attempt < DOWNLOAD_RETRIES
                   THEN Append(dl_slept, 2 * dl_attempt) ELSE dl_slept
    /\ dl_attempt' = dl_attempt + 1
    /\ dl_pc' = IF dl_attempt < DOWNLOAD_RETRIES THEN "request" ELSE "exhausted"
    /\ UNCHANGED <<dl_url, dl_path, dl_resp, dl_requests, dl_ret, dl_exc>>
    /\ DlFrame

\* raise RuntimeError("Download failed after ...") from last_exc
DownloadExhausted ==
    /\ task = "download"
    /\ dl_pc = "exhausted"
    /\ dl_exc' = "RuntimeError"
    /\ dl_pc' = "raised"
    /\ UNCHANGED <<dl_url, dl_path, dl_attempt, dl_resp, dl_last_exc, dl_requests,
                   dl_slept, dl_ret>>
    /\ DlFrame

InitDownload ==
    /\ task = "download"
    /\ cfg = DefaultConfig
    /\ scene = DefaultScene
    /\ TaskIdle
    /\ BusIdle
    /\ p_in = DefaultRun
    /\ PipeIdle
    /\ SseIdle
    /\ DbIdle
    /\ PlanIdle
    /\ dl_pc = "call"
    /\ dl_url \in DownloadUrls
    /\ dl_path \in DownloadPaths
    /\ dl_attempt = 0
    /\ dl_resp = "none"
    /\ dl_last_exc = "None"
    /\ dl_requests = <<>>
    /\ dl_slept = <<>>
    /\ dl_ret = <<>>
    /\ dl_exc = "none"
    /\ FlowIdle
    /\ HandIdle

NextDownload ==
    \/ DownloadCall
    \/ DownloadRequest
    \/ DownloadReturn
    \/ DownloadPropagate
    \/ DownloadCaught
    \/ DownloadExhausted

SpecDownload == InitDownload /\ [][NextDownload]_vars

\* ======================================================================
\* pipeline.py 400-506: what each stage hands to the next
\* ======================================================================
\* plan.characters of the run
HandCharacters == <<"Fox", "Owl">>

\* Scene.characters_present: names in scene order, some not in the plan
HandCasts == {<<>>, <<"Fox">>, <<"Owl", "Fox">>, <<"Fox", "Elk">>}

HandFrame == UNCHANGED <<taskVars, modVars, loopVars, busVars, pipeVars, sseVars,
                         dbVars, planVars, dlVars, flowVars>>

\* characters.py 245-252: the CharacterAsset of best, which is the best
\* verified attempt, or the initial best when every attempt was blocked
CharacterReturns(name) ==
    {[name |-> name, portrait_url |-> <<"portrait", name>>, consistency_score |-> 90],
     [name |-> name, portrait_url |-> ZeroBest.url, consistency_score |-> ZeroBest.score]}

\* keyframes.py 304-312: the KeyframeAsset of best, likewise
KeyframeReturns(scene_id) ==
    {[scene_id |-> scene_id, keyframe_url |-> <<"keyframe", ToString(scene_id)>>,
      consistency_score |-> 90],
     [scene_id |-> scene_id, keyframe_url |-> ZeroBest.url,
      consistency_score |-> ZeroBest.score]}

\* keyframes.py 68: [char_map[n] for n in scene.characters_present if n in char_map]
scene_chars(cast) ==
    LET known == SelectSeq(cast, LAMBDA n : \E i \in DOMAIN char_map : char_map[i].name = n)
    IN [k \in DOMAIN known |->
           char_map[CHOOSE i \in DOMAIN char_map : char_map[i].name = known[k]]]

\* keyframes.py 78: ref_urls = [c.portrait_url for c in scene_chars[:2]]
character_refs(cast) ==
    LET chars == SubSeq(scene_chars(cast), 1, min(2, Len(scene_chars(cast)))) IN
    [k \in DOMAIN chars |-> chars[k].portrait_url]

\* keyframes.py 79-80: the previous frame takes the third slot when it is truthy
ref_urls(cast, prev_last_frame_url) ==
    IF prev_last_frame_url # EmptyStr /\ Len(character_refs(cast)) < 3
    THEN Append(character_refs(cast), prev_last_frame_url)
    ELSE character_refs(cast)

\* lines 400-415: the character sheets of the plan, joined into char_map
HandCharacterSheets ==
    /\ hand_pc = "characters"
    /\ \/ /\ \E f \in [DOMAIN HandCharacters -> BOOLEAN] :
                char_map' = [i \in DOMAIN HandCharacters |->
                                CHOOSE a \in CharacterReturns(HandCharacters[i]) :
                                    (a.portrait_url = EmptyStr) = f[i]]
          /\ hand_pc' = "keyframes"
       \/ /\ hand_pc' = "raised"
          /\ UNCHANGED char_map
    /\ UNCHANGED <<hand_casts, keyframe_calls, hand_keyframes, hand_prev_url, video_calls>>
    /\ HandFrame

\* lines 433-450: compose_keyframe(scene, plan, char_map, prev_url) of the
\* next scene; keyframes.py 194: image_urls=ref_urls
HandKeyframe ==
    /\ hand_pc = "keyframes"
    /\ LET i == Len(hand_keyframes) + 1 IN
       /\ keyframe_calls' =
             Append(keyframe_calls,
                    [scene_id |-> i,
                     character_refs |-> character_refs(hand_casts[i]),
                     image_urls |-> ref_urls(hand_casts[i], hand_prev_url)])
       /\ \/ \E kf \in KeyframeReturns(i) :
                /\ hand_keyframes' = Append(hand_keyframes, kf)
                /\ hand_prev_url' = kf.keyframe_url
                /\ hand_pc' = IF i = Len(hand_casts) THEN "videos" ELSE "keyframes"
          \/ /\ hand_pc' = "raised"
             /\ UNCHANGED <<hand_keyframes, hand_prev_url>>
    /\ UNCHANGED <<hand_casts, char_map, video_calls>>
    /\ HandFrame

\* lines 480-506: generate_scene_video(kf, scene, char_map) for each pair of
\* zip(plan.scenes, keyframes); video.py 96: image_url=keyframe.keyframe_url
HandVideo ==
    /\ hand_pc = "videos"
    /\ LET i == Len(video_calls) + 1 IN
       /\ video_calls' =
             Append(video_calls,
                    [scene_id |-> hand_keyframes[i].scene_id,
                     image_url |-> hand_keyframes[i].keyframe_url])
       /\ \/ hand_pc' = IF i = Len(hand_casts) THEN "done" ELSE "videos"
          \/ hand_pc' = "raised"
    /\ UNCHANGED <<hand_casts, char_map, keyframe_calls, hand_keyframes, hand_prev_url>>
    /\ HandFrame

InitHand ==
    /\ task = "hand"
    /\ cfg = DefaultConfig
    /\ scene = DefaultScene
    /\ TaskIdle
    /\ BusIdle
    /\ p_in = DefaultRun
    /\ PipeIdle
    /\ SseIdle
    /\ DbIdle
    /\ PlanIdle
    /\ DlIdle
    /\ FlowIdle
    /\ hand_pc = "characters"
    /\ hand_casts \in [1 .. 2 -> HandCasts]
    /\ char_map = <<>>
    /\ keyframe_calls = <<>>
    /\ hand_keyframes = <<>>
    /\ hand_prev_url = <<>>
    /\ video_calls = <<>>

NextHand ==
    \/ HandCharacterSheets
    \/ HandKeyframe
    \/ HandVideo

SpecHand == InitHand /\ [][NextHand]_vars

\* ======================================================================
\* properties
\* ======================================================================
\* the asset a character or keyframe loop returned
LoopDone == task \in {"char", "key"} /\ pc = "done" /\ ~cfg.dry_run
RetUrl == IF task = "char" THEN ret.portrait_url ELSE ret.keyframe_url
RetPath == IF task = "char" THEN ret.portrait_path ELSE ret.keyframe_path

\* C1: the asset returned by generate_character_sheet and by compose_keyframe
\* carries the maximum overall_score of the attempts verified in the invocation
\* (0 when none was verified) and the URL and path of an attempt that scored it
C1_ReturnedIsBestVerified ==
    LoopDone =>
        /\ ret.consistency_score = MaxScore(verified)
        /\ verified # <<>> =>
              \E i \in DOMAIN verified :
                  /\ verified[i].score = MaxScore(verified)
                  /\ verified[i].url = RetUrl
                  /\ verified[i].path = RetPath

C5_ModerationBound ==
    /\ Len(reword_log) <= Max(m_max, 0)
    /\ Len(gen_log) <= Max(m_max, 0) + 1
    /\ \A i \in DOMAIN reword_log : is_moderated(gen_log[i].url)
    /\ m_pc = "ret" =>
          /\ Len(gen_log) = Len(reword_log) + 1
          /\ m_ret.still_moderated = is_moderated(m_ret.result)
          /\ m_ret.still_moderated => Len(reword_log) = m_max
          /\ ~m_ret.still_moderated =>
                \A i \in 1 .. Len(gen_log) - 1 : is_moderated(gen_log[i].url)

\* C5 happens: a direct call that used both rewords and is still blocked
C5_Witness ==
    /\ task = "mod"
    /\ m_pc = "ret"
    /\ m_max = MAX_REWORD_ATTEMPTS
    /\ Len(reword_log) = MAX_REWORD_ATTEMPTS
    /\ m_ret.still_moderated

\* C6: final_prompt is the prompt passed to the generate_fn call whose result
\* is returned: the original prompt when the first result is clean, else the
\* output of the last rewording
C6_FinalPromptIsPromptUsed ==
    m_pc = "ret" =>
        /\ m_ret.final_prompt = gen_log[Len(gen_log)].prompt
        /\ m_ret.result = gen_log[Len(gen_log)].url
        /\ reword_log = <<>> => m_ret.final_prompt = gen_log[1].prompt
        /\ (reword_log = <<>> /\ task = "mod") => m_ret.final_prompt = <<"original">>
        /\ reword_log # <<>> =>
              m_ret.final_prompt = reword_log[Len(reword_log)].reworded

\* C6 happens: two blocked results, two different rewordings, then a clean one
C6_Witness ==
    /\ task = "mod"
    /\ m_pc = "ret"
    /\ m_max = 2
    /\ Len(gen_log) = 3
    /\ ~m_ret.still_moderated
    /\ reword_log[1].reworded # reword_log[2].reworded
    /\ m_ret.final_prompt = reword_log[2].reworded

\* everything queue q ever received, read or not, oldest first
Received(q) == consumed[q] \o queues[q]
CountIn(e, items) == Cardinality({i \in DOMAIN items : items[i] = e})
\* the i-th publish has returned
PublishDone(i) == i < Len(published) \/ pub_pc # "iter"

\* C7: a publish puts its event exactly once on every queue registered when it
\* runs and on no other queue (a queue unsubscribed before gets nothing), and
\* no publish raises, also with no subscriber at all
C7_PublishDelivery ==
    /\ raised = "none"
    /\ \A i \in DOMAIN published :
          PublishDone(i) =>
              \A q \in QueueIds :
                  CountIn(published[i].event, Received(q))
                      = IF q \in Range(published[i].at) THEN 1 ELSE 0

\* C7 happens: queue 1 was unsubscribed, queue 2 is registered, a publish
\* returned; and before that a publish ran with no subscriber
C7_Witness ==
    /\ pub_pc = "idle"
    /\ Len(published) = 2
    /\ published[1].at = <<>>
    /\ published[2].at = <<2>>
    /\ next_q = 3
    /\ Received(1) = <<>>
    /\ Received(2) = <<published[2].event>>

\* C8: whatever subscribe and unsubscribe calls run concurrently, a publish
\* delivers to exactly the subscriber list of one instant of its execution:
\* no queue twice, no registered queue skipped
C8_PublishAtOneInstant ==
    /\ (pub_pc = "idle" /\ published # <<>> /\ raised = "none") =>
          pub_delivered \in pub_seen
    /\ pub_pc = "iter" =>
          \E l \in pub_seen :
              /\ Len(pub_delivered) <= Len(l)
              /\ pub_delivered = SubSeq(l, 1, Len(pub_delivered))
    /\ \A i, j \in DOMAIN pub_delivered : pub_delivered[i] = pub_delivered[j] => i = j

\* C8 happens: a publish is between its two deliveries and holds the lock
C8_Witness ==
    /\ pub_pc = "iter"
    /\ Len(subscribers) = 2
    /\ Len(pub_delivered) = 1
    /\ lock = "pipeline"

\* C9: unsubscribe raises nothing, leaves the list unchanged when the queue is
\* not in it (never registered, or removed before), and afterwards the queue
\* is not in the list while every other queue still is
C9_UnsubscribeIdempotent ==
    /\ raised # "ValueError"
    /\ last_op.op = "unsubscribe" =>
          /\ last_op.q \notin Range(subscribers)
          /\ last_op.q \notin Range(last_op.before) => subscribers = last_op.before
          /\ Range(subscribers) = Range(last_op.before) \ {last_op.q}
          /\ Len(subscribers) >= Len(last_op.before) - 1

\* C9 happens: a queue that was already removed is unsubscribed again while
\* another queue is registered
C9_Witness ==
    /\ last_op.op = "unsubscribe"
    /\ last_op.q = 1
    /\ last_op.q \notin Range(last_op.before)
    /\ last_op.before = <<2>>
    /\ subscribers = <<2>>

\* the events published while q was registered that q has been given so far
ExpectedFor(q) ==
    LET Given(p) ==
            /\ q \in Range(p.at)
            /\ \/ PublishDone(p.event.data)
               \/ q \in Range(pub_delivered)
        sel == SelectSeq(published, Given)
    IN [i \in DOMAIN sel |-> sel[i].event]

\* C10: every queue holds, in publish order, exactly the events published
\* while it was subscribed, none lost and none twice, read or unread
C10_FifoPerSubscriber ==
    \A q \in QueueIds : Received(q) = ExpectedFor(q)

\* C10 happens: every event was published before the subscriber read any,
\* then the subscriber read the first one
C10_Witness ==
    \E q \in QueueIds :
        /\ Len(published) = MaxEvents
        /\ pub_pc = "idle"
        /\ Len(consumed[q]) = 1
        /\ Len(queues[q]) = MaxEvents - 1
        /\ consumed[q][1] = published[1].event

\* the upserts made so far on one key of one table
OpsOn(t, rid, k) ==
    SelectSeq(db_ops, LAMBDA o : o.table = t /\ o.run_id = rid /\ o.key = k)

\* the rows a table holds for one key
RowsOfName(table, rid, k) == SelectSeq(table, LAMBDA r : r.run_id = rid /\ r.name = k)
RowsOfScene(table, rid, k) == SelectSeq(table, LAMBDA r : r.run_id = rid /\ r.scene_id = k)

\* one row per upserted key, carrying the latest upsert; no row for other keys
LatestOnly(rows, ops) ==
    IF ops = <<>> THEN rows = <<>> ELSE rows = <<ops[Len(ops)].row>>

\* C19: after any sequence of upserts each asset table holds exactly one row
\* per key (run_id, name) or (run_id, scene_id) that was upserted, that row
\* carries the values of the most recent upsert of the key, and the rows of
\* the other keys are as their own latest upsert left them
C19_UpsertReplaces ==
    task = "db" =>
        /\ \A rid \in DbRunIds, n \in CharNames :
              LatestOnly(RowsOfName(character_assets, rid, n),
                         OpsOn("character_assets", rid, n))
        /\ \A rid \in DbRunIds, sid \in SceneIds :
              /\ LatestOnly(RowsOfScene(keyframe_assets, rid, sid),
                            OpsOn("keyframe_assets", rid, sid))
              /\ LatestOnly(RowsOfScene(video_assets, rid, sid),
                            OpsOn("video_assets", rid, sid))

\* C19 happens: a key was upserted twice with different values while another
\* key of the same table holds a row
C19_Witness ==
    /\ task = "db"
    /\ Len(db_ops) = 3
    /\ Len(character_assets) = 2
    /\ \E i, j \in DOMAIN db_ops :
          /\ i < j
          /\ db_ops[i].table = "character_assets"
          /\ db_ops[j].table = "character_assets"
          /\ db_ops[i].run_id = db_ops[j].run_id
          /\ db_ops[i].key = db_ops[j].key
          /\ db_ops[i].row # db_ops[j].row

\* the loop has verified an attempt whose score reached the threshold
Accepted ==
    /\ task \in {"char", "key"}
    /\ ~cfg.dry_run
    /\ \E i \in DOMAIN verified : verified[i].score >= cfg.consistency_threshold

\* the first accepted attempt is the last one verified, and from then on the
\* loop only returns: no generator call and no verifier call follow it
AcceptEndsLoop ==
    Accepted =>
        /\ \A i \in DOMAIN verified :
              verified[i].score >= cfg.consistency_threshold => i = Len(verified)
        /\ pc \in {"return", "done"}
        /\ m_pc = "idle"
        /\ n_gen = verified[Len(verified)].gens
        /\ pc = "done" => ret.consistency_score = verified[Len(verified)].score

\* C20 (as amended): the first attempt whose score reaches the threshold ends
\* the character loop and the keyframe loop, with no further generator or
\* verifier call; generate_character_sheet returns generation_attempts equal
\* to that attempt's index, compose_keyframe returns edit_passes equal to the
\* index minus one and generation_attempts equal to 1
C20_AcceptEndsLoop ==
    /\ AcceptEndsLoop
    /\ (Accepted /\ pc = "done" /\ task = "char") =>
          ret.generation_attempts = verified[Len(verified)].n
    /\ (Accepted /\ pc = "done" /\ task = "key") =>
          /\ ret.edit_passes = verified[Len(verified)].n - 1
          /\ ret.generation_attempts = 1

\* C20 (as stated): the same, with the returned attempt counter equal to the
\* accepted attempt's index in both loops
C20_AttemptCounterIsIndex ==
    /\ AcceptEndsLoop
    /\ (Accepted /\ pc = "done") =>
          ret.generation_attempts = verified[Len(verified)].n

\* C20 happens: scores 0.60 then 0.90 against threshold 0.80 with three
\* attempts allowed end the character loop at attempt 2
C20_Witness ==
    /\ task = "char"
    /\ pc = "done"
    /\ cfg.consistency_threshold = CONSISTENCY_THRESHOLD
    /\ max_char_attempts(cfg) = 3
    /\ Len(verified) = 2
    /\ verified[1].score = 60
    /\ verified[2].score = 90
    /\ ret.consistency_score = 90
    /\ ret.generation_attempts = 2


\* ---------------------------------------------------------------------
\* the loops, attempt by attempt
\* ---------------------------------------------------------------------
\* the last verified attempt of the invocation
LastVerified == verified[Len(verified)]

\* the corrections of a video invocation that were downloaded and scored
CorrectionsScored == Len(SelectSeq(verified, LAMBDA v : v.kind = "correction"))

LoopIndex == IF task = "char" THEN attempt ELSE iteration

\* the loop has the blocked result of its current attempt in hand
BlockedInHand ==
    /\ task \in {"char", "key"}
    /\ pc = "wait_gen"
    /\ m_pc = "ret"
    /\ m_ret.still_moderated

\* C23: in the character and keyframe loops the step that takes a result still
\* blocked after rewording verifies nothing, downloads nothing, leaves best,
\* the last score and the attempt index as they are and goes back to the loop
\* head; and every step that starts an attempt raises the index by one, so the
\* blocked index is not tried again
C23_BlockedAttemptSkipped ==
    [][/\ BlockedInHand =>
             /\ verified' = verified
             /\ n_dl' = n_dl
             /\ n_gen' = n_gen
             /\ best' = best
             /\ score' = score
             /\ attempt' = attempt
             /\ iteration' = iteration
             /\ pc' = "loop"
       /\ (task \in {"char", "key"} /\ pc = "loop" /\ pc' = "wait_gen") =>
             LoopIndex' = LoopIndex + 1]_vars

\* C23 happens: attempt 1 of a keyframe loop was blocked three times and
\* skipped, and iteration 2 has been requested with nothing verified,
\* downloaded or kept
C23_Witness ==
    /\ task = "key"
    /\ pc = "wait_gen"
    /\ iteration = 2
    /\ n_gen >= 1 + MAX_REWORD_ATTEMPTS
    /\ verified = <<>>
    /\ n_dl = 0
    /\ best = ZeroBest


\* every attempt of the loop was blocked: the loop is over and nothing was
\* ever downloaded or verified
AllBlocked ==
    /\ task \in {"char", "key"}
    /\ ~cfg.dry_run
    /\ pc \in {"return", "done"}
    /\ n_dl = 0
    /\ verified = <<>>

\* C24: a character or keyframe loop whose every attempt was moderation-blocked
\* raises nothing and returns an asset with score 0, an empty URL and an empty
\* path; generation_attempts of the character asset is max_char_attempts and
\* edit_passes of the keyframe asset is max_keyframe_iters - 1; the loop
\* raises only out of a download, which a blocked attempt never reaches
C24_AllBlockedReturnsSentinel ==
    /\ AllBlocked =>
          /\ LoopIndex = IF task = "char" THEN max_char_attempts(cfg)
                         ELSE max_keyframe_iters(cfg)
          /\ n_gen = LoopIndex * (1 + MAX_REWORD_ATTEMPTS)
          /\ best = [score |-> 0, url |-> <<>>, path |-> <<>>]
    /\ (AllBlocked /\ pc = "done") =>
          /\ ret.consistency_score = 0
          /\ RetUrl = <<>>
          /\ RetPath = <<>>
          /\ task = "char" => ret.generation_attempts = max_char_attempts(cfg)
          /\ task = "key" => ret.edit_passes = max_keyframe_iters(cfg) - 1
    /\ (task \in {"char", "key"} /\ pc = "raised") => n_dl > 0

\* C24 happens: three character attempts, nine blocked generations, and the
\* sentinel asset returned
C24_Witness ==
    /\ task = "char"
    /\ pc = "done"
    /\ AllBlocked
    /\ max_char_attempts(cfg) = 3
    /\ n_gen = 9
    /\ ret.generation_attempts = 3
    /\ ret.portrait_url = <<>>


\* the initial generation of a video came back still blocked after rewording
InitialBlockedInHand ==
    /\ task = "video"
    /\ pc = "wait_initial"
    /\ m_pc = "ret"
    /\ m_ret.still_moderated

\* C25: when the initial video generation is still moderation-blocked after
\* rewording, generate_scene_video raises at once: no download, no score, no
\* correction, no regeneration and no further generator call happen in that
\* step, and an invocation that has raised does nothing more and returns no
\* VideoAsset
C25_InitialBlockedFailsHard ==
    [][/\ InitialBlockedInHand =>
             /\ pc' = "raised"
             /\ n_dl' = n_dl
             /\ n_gen' = n_gen
             /\ verified' = verified
             /\ corrections' = corrections
             /\ ext_regens' = ext_regens
             /\ current_url' = current_url
             /\ video_path' = video_path
             /\ ret' = ret
       /\ (task = "video" /\ pc = "raised") => pc' = "raised" /\ ret' = ret
       /\ (task = "video" /\ pc' = "done") => pc = "return"]_vars

\* C25 happens: the initial generation and both reworded ones were blocked and
\* the invocation has raised with nothing downloaded or verified
C25_Witness ==
    /\ task = "video"
    /\ pc = "raised"
    /\ n_gen = 1 + MAX_REWORD_ATTEMPTS
    /\ n_dl = 0
    /\ verified = <<>>
    /\ corrections = 0
    /\ ext_regens = 0
    /\ current_url = <<>>


\* a step in which the task hands a request to generate_with_moderation_retry
RequestStarts == m_pc = "idle" /\ m_pc' = "start"

\* C26: the counter of each loop is the number of passes of the loop body that
\* were started, blocked ones included: it is 0 before the loop, goes up by
\* exactly one in each step that starts a pass (for the video, a correction
\* pass) and changes in no other step, and the asset returns it:
\* generation_attempts = passes of the character loop, edit_passes = passes
\* of the keyframe loop minus one, correction_passes = correction passes
C26_CounterIsPassesRun ==
    [][/\ (task = "char" /\ ~cfg.dry_run) =>
             /\ pc = "begin" => attempt' = 0
             /\ (pc # "begin" /\ RequestStarts) => attempt' = attempt + 1
             /\ (pc # "begin" /\ ~RequestStarts) => attempt' = attempt
             /\ pc' = "done" => ret'.generation_attempts = attempt
       /\ (task = "key" /\ ~cfg.dry_run) =>
             /\ pc = "begin" => iteration' = 0
             /\ (pc # "begin" /\ RequestStarts) => iteration' = iteration + 1
             /\ (pc # "begin" /\ ~RequestStarts) => iteration' = iteration
             /\ pc' = "done" => ret'.edit_passes = iteration - 1
       /\ task = "video" =>
             /\ pc = "begin" => corrections' = 0
             /\ (pc = "corr_loop" /\ RequestStarts) => corrections' = corrections + 1
             /\ (pc # "begin" /\ ~(pc = "corr_loop" /\ RequestStarts)) =>
                   corrections' = corrections
             /\ pc' = "done" => ret'.correction_passes = corrections]_vars

\* C26 happens: a keyframe loop ran three iterations, one of them blocked and
\* skipped, and returned edit_passes = 2
C26_Witness ==
    /\ task = "key"
    /\ pc = "done"
    /\ ~cfg.dry_run
    /\ iteration = 3
    /\ Len(verified) = 2
    /\ ret.edit_passes = 2


\* the prompts a fix derived from the verifier's answer about url can be: its
\* explicit fix instruction, or one of the two templates around its issue list
FixPromptsFor(url) ==
    {<<"fix_of">> \o url,
     <<"Fix ONLY these issues", "issues_of">> \o url,
     <<"Fix", "issues_of">> \o url}

\* the from-scratch prompt of each loop
FromScratchPrompt ==
    IF task = "char" THEN <<"character_prompt">>
    ELSE IF task = "key" THEN <<"compose_prompt">>
    ELSE <<"video_prompt">>

\* the prompt of a later pass is a fix prompt: not the from-scratch prompt,
\* and derived from the latest verifier answer when there is one
IsFixPrompt(p) ==
    /\ p # FromScratchPrompt
    /\ verified # <<>> => p \in FixPromptsFor(LastVerified.url)

\* the keyframe loop and the video correction loop ask for attempt 1 with the
\* from-scratch prompt and for every later one with a fix prompt
KeyVideoUseFixPrompt ==
    /\ (task = "key" /\ pc = "wait_gen" /\ m_pc = "start") =>
          IF iteration = 1 THEN m_prompt = FromScratchPrompt ELSE IsFixPrompt(m_prompt)
    /\ (task = "video" /\ pc = "wait_initial" /\ m_pc = "start") =>
          m_prompt = FromScratchPrompt
    /\ (task = "video" /\ pc = "wait_corr" /\ m_pc = "start") =>
          IsFixPrompt(m_prompt)

\* C27: in the character, keyframe and video loops, attempt 1 is requested
\* with the from-scratch prompt and every attempt n >= 2 with a fix prompt
\* derived from the previous verifier answer, not with the from-scratch
\* prompt again
C27_LaterAttemptsUseFixPrompt ==
    /\ KeyVideoUseFixPrompt
    /\ (task = "char" /\ pc = "wait_gen" /\ m_pc = "start") =>
          IF attempt = 1 THEN m_prompt = FromScratchPrompt ELSE IsFixPrompt(m_prompt)

\* ---------------------------------------------------------------------
\* video_pipeline and its observer
\* ---------------------------------------------------------------------
\* the observer calls of one method, in order
CallsOf(m) == SelectSeq(notified, LAMBDA e : e.method = m)

\* on_run_start has returned a run id: the body of the try is running or over
RunStarted == notified # <<>> /\ notified[1].propagated = "none"

\* the exceptions the stages raise, and the stage each one comes from
TaskExceptions ==
    {"plan_story", "generate_character_sheet", "compose_keyframe", "compile_script",
     "generate_scene_video", "assemble_final_video"}

StageOf(exc) ==
    CASE exc = "plan_story" -> 1
      [] exc = "generate_character_sheet" -> 2
      [] exc = "compose_keyframe" -> 3
      [] exc = "compile_script" -> 4
      [] exc = "generate_scene_video" -> 5
      [] exc = "assemble_final_video" -> 6

\* the place of a milestone in the stage order
Rank(m) ==
    CASE m = "on_run_start" -> 1
      [] m = "on_plan" -> 2
      [] m = "on_character" -> 3
      [] m = "on_keyframe" -> 4
      [] m = "on_script" -> 5
      [] m \in {"on_video_start", "on_video"} -> 6
      [] m = "on_complete" -> 7
      [] m = "on_error" -> 8

\* C11: an exception raised by any observer milestone method, on_run_start
\* included, is caught and never propagates into video_pipeline
C11_ObserverNeverAborts ==
    task = "pipeline" =>
        /\ \A i \in DOMAIN notified : notified[i].propagated = "none"
        /\ p_out.kind = "raised" => p_out.value \in TaskExceptions

\* C12: _notify returns normally whatever the observer does; the named method
\* is called once with the given arguments when the observer has it, and an
\* exception of the method or the AttributeError of a missing method is
\* swallowed
C12_NotifyReturnsNormally ==
    task = "pipeline" =>
        /\ \A i \in DOMAIN notified :
              notified[i].via = "_notify" =>
                  /\ notified[i].propagated = "none"
                  /\ notified[i].called = (notified[i].method \in ObserverMethods)
                  /\ notified[i].args.run_id = run_id
        /\ Len(CallsOf("on_plan")) <= 1
        /\ Len(CallsOf("on_script")) <= 1
        /\ Len(CallsOf("on_complete")) <= 1
        /\ Len(CallsOf("on_error")) <= 1
        /\ Len(CallsOf("on_keyframe")) = Len(keyframes)
        /\ \A i \in DOMAIN keyframes : CallsOf("on_keyframe")[i].args.payload = keyframes[i]
        /\ Len(CallsOf("on_video")) = Len(videos)
        /\ \A i \in DOMAIN videos : CallsOf("on_video")[i].args.payload = videos[i]
        /\ \A i \in DOMAIN CallsOf("on_character") :
              CallsOf("on_character")[i].args.payload = characters[i]
        /\ \A i \in DOMAIN CallsOf("on_error") :
              CallsOf("on_error")[i].args.payload = p_exc

\* C12 happens: a run returned although one observer method raised and
\* another does not exist
C12_Witness ==
    /\ task = "pipeline"
    /\ p_pc = "returned"
    /\ \E i \in DOMAIN notified :
          notified[i].via = "_notify" /\ notified[i].exc = "RuntimeError"
    /\ \E i \in DOMAIN notified :
          notified[i].via = "_notify" /\ notified[i].exc = "AttributeError"

C14_SnapshotAfterEachStage ==
    (task = "pipeline" /\ p_pc = "raised" /\ p_exc \in TaskExceptions) =>
        /\ StageOf(p_exc) > 1 => state_file.plan
        /\ StageOf(p_exc) > 2 =>
              /\ Len(characters) = p_in.n_chars
              /\ state_file.characters = characters
        /\ StageOf(p_exc) > 3 =>
              /\ Len(keyframes) = p_in.n_scenes
              /\ state_file.keyframes = keyframes
        /\ StageOf(p_exc) > 5 =>
              /\ Len(videos) = p_in.n_scenes
              /\ state_file.videos = videos

\* C15: the stages run in the order Plan, Characters, Keyframes, Script,
\* Videos, Assembly; keyframes start after every character unit of work has
\* been joined, the script after all keyframes, videos after the script,
\* assembly after a video of every scene; milestones come in the same order
C15_StageOrder ==
    task = "pipeline" =>
        /\ (\E c \in 1 .. MaxChars : futures[c] # "none") =>
              Len(CallsOf("on_plan")) = 1
        /\ (p_pc = "keyframes" \/ keyframes # <<>>) =>
              /\ Len(characters) = p_in.n_chars
              /\ \A c \in 1 .. p_in.n_chars : futures[c] = "completed"
        /\ (p_pc = "script" \/ script # <<>>) => Len(keyframes) = p_in.n_scenes
        /\ (p_pc \in {"video_start", "video_gen"} \/ videos # <<>>) => script # <<>>
        /\ (p_pc = "assembly" \/ p_out.kind = "returned") =>
              Len(videos) = p_in.n_scenes
        /\ \A i, j \in DOMAIN notified :
              i < j => Rank(notified[i].method) <= Rank(notified[j].method)
        /\ p_pc = "returned" =>
              {notified[i].method : i \in DOMAIN notified} =
                  (ObserverMethods \ {"on_error"}) \cup {"on_video_start"}

\* C15 happens: a run with two characters and two scenes went through every
\* stage and returned the assembled video
C15_Witness ==
    /\ task = "pipeline"
    /\ p_pc = "returned"
    /\ p_in.n_chars = 2
    /\ p_in.n_scenes = 2
    /\ ~p_in.dry_run
    /\ Len(videos) = 2

\* C16: the first scene is composed with no predecessor reference, and every
\* later scene with the last frame of the previous scene's video
C16_PrevIsPreviousFinalFrame ==
    task = "pipeline" =>
        \A i \in DOMAIN keyframes :
            IF i = 1 THEN keyframes[i].prev_last_frame_url = <<>>
            ELSE /\ i - 1 \in DOMAIN videos
                 /\ keyframes[i].prev_last_frame_url = videos[i - 1].last_frame_path

\* the error events published for the run
ErrorEvents ==
    SelectSeq(bus_log, LAMBDA e : e.type = "error" /\ e.run_id = run_id)

\* C18: when a run fails, its row is marked failed with a completion
\* timestamp and the error message, and exactly one error event carrying the
\* error text is published for it
C18_FailedRunIsRecorded ==
    (task = "pipeline" /\ p_in.observer = "web" /\ p_pc = "raised"
        /\ run_id \in DOMAIN runs) =>
        /\ runs[run_id].status = "failed"
        /\ runs[run_id].completed_at # <<>>
        /\ "error" \in DOMAIN runs[run_id]
        /\ runs[run_id].error = p_exc
        /\ Len(ErrorEvents) = 1
        /\ ErrorEvents[1].data.error = p_exc

\* the events the stream has emitted so far
SseEmitted == [i \in 1 .. Len(sse_out) |-> sse_out[i].event]

\* the two event types that end a run
SseTerminal(e) == e.type \in {"complete", "error"}

\* the stream has left its loop through the break of line 212
SseEnded == sse_pc \in {"finally", "closed"}

\* C17: the SSE stream opened for run r emits only events whose run_id is r, in
\* the order its queue received them; a complete or error event of r is the
\* last thing it emits, and the stream leaves its loop by itself only right
\* after emitting one, so events of other runs, their terminal events
\* included, are dropped and never end it; once the generator has finished
\* (after the break or after a disconnect) its queue, and no other queue, is
\* gone from the bus's subscriber list
C17_SseStreamFiltersAndEnds ==
    /\ \A i \in 1 .. Len(sse_out) :
          /\ SseEmitted[i].run_id = sse_run
          /\ sse_out[i].chunk = sse_chunk(SseEmitted[i])
          /\ SseTerminal(SseEmitted[i]) => i = Len(sse_out)
    /\ sse_pc # "none" =>
          SseEmitted = SelectSeq(consumed[sse_q], LAMBDA e : e.run_id = sse_run)
    /\ (Len(sse_out) > 0 /\ SseTerminal(SseEmitted[Len(sse_out)])) =>
          sse_pc \in {"yielded", "finally", "closed", "cancelled", "disconnected"}
    /\ SseEnded =>
          /\ Len(sse_out) > 0
          /\ SseTerminal(SseEmitted[Len(sse_out)])
          /\ SseEmitted[Len(sse_out)].run_id = sse_run
    /\ sse_pc \in {"closed", "disconnected"} =>
          /\ sse_q \notin Range(subscribers)
          /\ \A q \in 1 .. next_q - 1 : q # sse_q => q \in Range(subscribers)
    /\ sse_pc \in {"get", "yielded", "finally", "cancelled"} =>
          sse_q \in Range(subscribers)
    /\ raised = "none"

\* the stream of run r dropped a terminal event of another run, went on, and
\* closed after its own terminal event while another subscriber stayed on the bus
C17_Witness ==
    /\ sse_pc = "closed"
    /\ \E i \in 1 .. Len(consumed[sse_q]) :
          /\ consumed[sse_q][i].run_id # sse_run
          /\ SseTerminal(consumed[sse_q][i])
    /\ Len(sse_out) = 1
    /\ subscribers # <<>>

\* the scene ids of a list of assets, in list order
SceneIdsOf(assets) == [i \in DOMAIN assets |-> assets[i].scene_id]

\* C28: keyframes and videos are produced one scene at a time in plan order:
\* a step returns at most one keyframe or one video, the keyframe of scene
\* i + 1 only when the keyframes of scenes 1..i have been returned, the video
\* of scene i + 1 only when the videos of scenes 1..i have been returned (and
\* every keyframe before any video); on_video_start of a scene follows
\* on_video of the scene before; character units alone run side by side
C28_OneSceneAtATime ==
    /\ SceneIdsOf(keyframes) = [i \in 1 .. Len(keyframes) |-> i]
    /\ SceneIdsOf(videos) = [i \in 1 .. Len(videos) |-> i]
    /\ Len(keyframes) <= p_in.n_scenes
    /\ Len(videos) <= Len(keyframes)
    /\ videos # <<>> => Len(keyframes) = p_in.n_scenes
    /\ [i \in 1 .. Len(CallsOf("on_keyframe")) |->
            CallsOf("on_keyframe")[i].args.payload.scene_id]
          = [i \in 1 .. Len(keyframes) |-> i]
    /\ [i \in 1 .. Len(CallsOf("on_video")) |->
            CallsOf("on_video")[i].args.payload.scene_id]
          = [i \in 1 .. Len(videos) |-> i]
    /\ LET starts == Len(CallsOf("on_video_start")) IN
          /\ starts \in {Len(videos), Len(videos) + 1}
          /\ p_pc = "video_gen" => starts = Len(videos) + 1
          /\ starts = Len(videos) + 1 => p_pc \in {"video_gen", "except", "raised"}
    /\ (p_pc \in {"keyframes", "script", "video_start", "video_gen", "assembly"}) =>
          \A c \in 1 .. MaxChars : futures[c] # "running"

\* C28 happens: two character units ran side by side before, both keyframes
\* are composed, the video of scene 1 has been returned and the video of
\* scene 2 is being generated
C28_Witness ==
    /\ p_in.n_chars = 2
    /\ p_in.n_scenes = 2
    /\ p_pc = "video_gen"
    /\ Len(keyframes) = 2
    /\ Len(videos) = 1
    /\ Len(CallsOf("on_video_start")) = 2

\* ---------------------------------------------------------------------
\* the plan before generation, and the tiers
\* ---------------------------------------------------------------------
\* generation has begun: the plan is past the debug trim and the clamping
GenerationBegun == plan_pc \in {"characters", "keyframes", "videos", "done"}

\* every scene's duration is at most max_duration and at most what the plan
\* came in with; with max_duration <= 8 every scene is correction-eligible
DurationsClamped ==
    GenerationBegun =>
        /\ \A i \in DOMAIN plan.scenes :
              /\ plan.scenes[i].duration_seconds <= run_cfg.max_duration
              /\ plan.scenes[i].duration_seconds
                    <= plan_in.scenes[plan.scenes[i].scene_id].duration_seconds
        /\ run_cfg.max_duration <= 8 =>
              /\ \A i \in DOMAIN plan.scenes : plan.scenes[i].duration_seconds <= 8
              /\ \A i \in DOMAIN video_tiers : video_tiers[i].correction_eligible

\* C29: before any character, keyframe or video is generated every scene's
\* duration is at most max_duration and not above its original value; in
\* debug mode the plan has exactly one scene and only characters named in
\* that scene's characters_present; with max_duration <= 8 every scene is
\* correction-eligible
C29_PlanPreparedBeforeGeneration ==
    /\ DurationsClamped
    /\ (GenerationBegun /\ run_cfg.debug) =>
          /\ Len(plan.scenes) = 1
          /\ \A i \in DOMAIN plan.characters :
                plan.characters[i] \in plan.scenes[1].characters_present

\* the prompt is the two-phase one
IsTwoPhase(prompt) == \E i \in DOMAIN prompt : prompt[i] = "Phase 1"

\* C30: a scene is in one tier for the whole run: the duration read at
\* keyframe time and at video time is the same clamped value, the video
\* prompt built at keyframe time is the two-phase prompt if and only if the
\* scene is not correction-eligible at video time, both exactly when that
\* duration is above 8, and the video task uses the prompt built then
C30_OneTierPerScene ==
    /\ Len(video_tiers) <= Len(video_prompts)
    /\ \A i \in DOMAIN video_prompts :
          /\ video_prompts[i].scene_id = plan.scenes[i].scene_id
          /\ video_prompts[i].duration_seconds = plan.scenes[i].duration_seconds
          /\ IsTwoPhase(video_prompts[i].video_prompt)
                <=> video_prompts[i].duration_seconds > 8
    /\ \A i \in DOMAIN video_tiers :
          /\ video_tiers[i].scene_id = video_prompts[i].scene_id
          /\ video_tiers[i].duration_seconds = video_prompts[i].duration_seconds
          /\ video_tiers[i].vid_prompt = video_prompts[i].video_prompt
          /\ IsTwoPhase(video_prompts[i].video_prompt)
                <=> ~video_tiers[i].correction_eligible
          /\ video_tiers[i].correction_eligible
                <=> video_tiers[i].duration_seconds <= 8

\* C30 happens: in one run an 8 second scene got the one-paragraph prompt and
\* is correction-eligible, and a 9 second scene got the two-phase prompt and
\* is extended
C30_Witness ==
    /\ plan_pc = "done"
    /\ Len(video_tiers) = 2
    /\ \E i, j \in DOMAIN video_tiers :
          /\ plan_in.scenes[i].duration_seconds = 9
          /\ IsTwoPhase(video_tiers[i].vid_prompt)
          /\ ~video_tiers[i].correction_eligible
          /\ plan_in.scenes[j].duration_seconds = 8
          /\ ~IsTwoPhase(video_tiers[j].vid_prompt)
          /\ video_tiers[j].correction_eligible

\* ---------------------------------------------------------------------
\* download() and its requests
\* ---------------------------------------------------------------------
\* a timeout or a connection error
TransientOutcome(o) == o \in {"Timeout", "ConnectionError"}

DownloadEnded == task = "download" /\ dl_pc \in {"done", "raised"}

\* C31: one call of download() issues at most DOWNLOAD_RETRIES requests; a
\* request is followed by another only if it ended in a timeout or a
\* connection error; RuntimeError is raised exactly when all DOWNLOAD_RETRIES
\* requests ended that way; an HTTP error status leaves as that error right
\* after the request that got it; a 200 returns the path
C31_DownloadBoundedRetries ==
    task = "download" =>
        /\ Len(dl_requests) <= DOWNLOAD_RETRIES
        /\ \A i \in 1 .. Len(dl_requests) - 1 : TransientOutcome(dl_requests[i].outcome)
        /\ DownloadEnded =>
            /\ Len(dl_requests) >= 1
            /\ LET last == dl_requests[Len(dl_requests)].outcome IN
                /\ (dl_pc = "raised" /\ dl_exc = "RuntimeError") <=>
                       (Len(dl_requests) = DOWNLOAD_RETRIES /\ TransientOutcome(last))
                /\ (dl_pc = "raised" /\ dl_exc # "RuntimeError") <=>
                       (last \in {"404", "500"})
                /\ (dl_pc = "done") <=> (last = "200")
                /\ dl_pc = "done" => dl_ret = dl_path
        /\ (dl_requests # <<>> /\ dl_requests[1].outcome \in {"404", "500"}) =>
               Len(dl_requests) = 1

\* two timeouts and a connection error: the third request was the last
C31_Witness ==
    /\ task = "download"
    /\ dl_pc = "raised"
    /\ dl_exc = "RuntimeError"
    /\ Len(dl_requests) = DOWNLOAD_RETRIES
    /\ dl_requests[3].outcome = "ConnectionError"
    /\ dl_slept = <<2, 4>>

\* ---------------------------------------------------------------------
\* the budgets of the loops
\* ---------------------------------------------------------------------
\* generation calls one generate_with_moderation_retry call may make
CallsPerRequest == MAX_REWORD_ATTEMPTS + 1

\* the generation calls one invocation may make
GenerationBudget ==
    CASE task = "char" -> max_char_attempts(cfg) * CallsPerRequest
      [] task = "key" -> max_keyframe_iters(cfg) * CallsPerRequest
      [] task = "video" ->
            IF scene.duration_seconds <= 8
            THEN (1 + max_video_corrections(cfg)) * CallsPerRequest
            ELSE 2 * CallsPerRequest
      [] OTHER -> CallsPerRequest

\* the verifier calls a character or keyframe invocation may make
VerifierBudget ==
    CASE task = "char" -> max_char_attempts(cfg)
      [] task = "key" -> max_keyframe_iters(cfg)
      [] OTHER -> Len(verified)

WithinBudget ==
    task \in {"char", "key", "video"} =>
        /\ n_gen <= GenerationBudget
        /\ Len(verified) <= VerifierBudget

InvocationEnded == pc \in {"done", "raised"}

\* C32: an invocation of a loop never makes more generation calls than
\* its attempts times (rewordings + 1), with 1 + max_video_corrections
\* requests for an 8 second scene and 2 for a longer one, nor more verifier
\* calls than attempts in the character and keyframe loops; and it ends
C32_LoopsEndWithinBudget == []WithinBudget /\ <>InvocationEnded

\* every attempt of a character sheet blocked through every rewording
C32_Witness ==
    /\ task = "char"
    /\ pc = "done"
    /\ max_char_attempts(cfg) = MAX_CHAR_ATTEMPTS
    /\ n_gen = MAX_CHAR_ATTEMPTS * (MAX_REWORD_ATTEMPTS + 1)

\* ---------------------------------------------------------------------
\* the end of a run, on the bus and in the store
\* ---------------------------------------------------------------------
\* the events of one run, in publication order
EventsOfRun(log, rid) == SelectSeq(log, LAMBDA e : e.run_id = rid)

\* a complete or an error event of the run has been published
RunEnded(rid) ==
    \E i \in 1 .. Len(bus_log) :
        bus_log[i].run_id = rid /\ bus_log[i].type \in {"complete", "error"}

\* C33: once a complete or error event of a run id is published, no step
\* publishes another event of that run id (so the terminal event is the
\* only one and the last one) and no step changes the run's stored status,
\* a re-execution of the flow by its retry included
C33_TerminalEventIsFinal ==
    [][\A rid \in 1 .. Len(runs) :
          RunEnded(rid) =>
              /\ EventsOfRun(bus_log', rid) = EventsOfRun(bus_log, rid)
              /\ runs'[rid].status = runs[rid].status]_vars

\* video_pipeline has returned or raised, for a run a WebObserver reports on
PipelineFinished ==
    /\ p_pc \in {"returned", "raised"}
    /\ p_in.observer \in {"web", "launcher"}
    /\ run_id # 0

\* C34: when video_pipeline has returned or raised, a complete or error
\* event of its run has been published, so that every stream subscribed to
\* the run gets the event that ends it
C34_FinishedRunIsAnnounced == PipelineFinished => RunEnded(run_id)

\* ---------------------------------------------------------------------
\* the assets handed from stage to stage
\* ---------------------------------------------------------------------
NoUrl == <<>>

\* C35: no compose_keyframe call gets a character reference with an empty
\* portrait URL, and no generate_scene_video call gets a keyframe with an
\* empty keyframe_url
C35_SentinelNeverConsumed ==
    /\ \A i \in 1 .. Len(keyframe_calls) :
          \A k \in 1 .. Len(keyframe_calls[i].character_refs) :
              keyframe_calls[i].character_refs[k] # NoUrl
    /\ \A i \in 1 .. Len(video_calls) : video_calls[i].image_url # NoUrl

\* ---------------------------------------------------------------------
\* the edit passes of compose_keyframe
\* ---------------------------------------------------------------------
\* an edit request of compose_keyframe is in hand or was the last request
KeyEditRequested == task = "key" /\ sample_kw.mode = "edit"

\* C36: every edit request of compose_keyframe (iteration 2 and later) names
\* as its image a non-empty URL that an earlier iteration of this invocation
\* generated and had verified
C36_EditTargetsVerifiedArtifact ==
    KeyEditRequested =>
        /\ sample_kw.image_url # NoUrl
        /\ \E i \in 1 .. Len(verified) :
              /\ verified[i].url = sample_kw.image_url
              /\ verified[i].n < iteration

\* an edit request of compose_keyframe has just been made, on an image
KeyEditInHand ==
    /\ task = "key"
    /\ pc = "wait_gen"
    /\ m_pc = "start"
    /\ sample_kw.mode = "edit"
    /\ sample_kw.image_url # NoUrl

\* C37: the fix prompt of an edit request of compose_keyframe is derived
\* from the verifier's answer about the image the request edits: the edit
\* base and the issues or fix instruction come from the same attempt
C37_FixPromptMatchesEditBase ==
    KeyEditInHand => m_prompt \in FixPromptsFor(sample_kw.image_url)

\* ---------------------------------------------------------------------
\* the extended tier and the configured threshold
\* ---------------------------------------------------------------------
\* the initial score of a video invocation, once it is there
InitialScore == verified[1].score

====
